---- MODULE Spec2Model ----
(***************************************************************************)
(* A model of the linedit line editor (src/src/linedit.c): the UTF-8       *)
(* string surgery, the string lists (history, suggestions) and the key     *)
(* handler of one editing session, one keypress per step.                  *)
(*                                                                         *)
(* A C string is a sequence of bytes (0..255) without its NUL terminator.  *)
(* A linedit_string is [alloc, bytes, cap]: alloc is string != NULL,       *)
(* bytes the bytes before the terminator (so length = Len(bytes)) and cap  *)
(* the capacity.  The bytes of the allocation behind the terminator are    *)
(* not kept: every loop of the source stops at index length.               *)
(***************************************************************************)
EXTENDS Integers, Sequences, FiniteSets, TLC

(* ---------------------------------------------------------------------- *)
(* Bounds of the model                                                     *)
(* ---------------------------------------------------------------------- *)

\* Most characters a buffer is let to grow to by typing, pasting or TAB.
MaxLen == 3

\* Most linedit() calls made on one editor.
MaxSessions == 3

\* The largest number of characters typed in the scenarios with a completer
\* or with several sessions.
MaxTyped == 2

\* Most consecutive UP keypresses.
MaxUps == 3

\* Most DOWN keypresses that cycle through one list of suggestions.
MaxDowns == 3

(* ---------------------------------------------------------------------- *)
(* Program constants                                                       *)
(* ---------------------------------------------------------------------- *)

linedit_MINIMUMSTRINGSIZE == 8

(* ---------------------------------------------------------------------- *)
(* Characters used as input, as UTF-8 byte sequences                       *)
(* ---------------------------------------------------------------------- *)

ch_a == <<97>>
ch_e == <<101>>
ch_f == <<102>>
ch_h == <<104>>
ch_lbrace == <<123>>
ch_rbrace == <<125>>
ch_euro == <<226, 130, 172>>      \* U+20AC, three bytes
ch_acute == <<204, 129>>          \* U+0301 combining acute accent, two bytes
ch_tab == <<9>>
ch_newline == <<10>>
ch_semicolon == <<59>>
str_llo == <<108, 108, 111>>
str_hello == <<104, 101, 108, 108, 111>>

(* ---------------------------------------------------------------------- *)
(* Basic UTF8 support                                                      *)
(* ---------------------------------------------------------------------- *)

\* The byte at 0-based index i of a C string: the terminator at and after
\* index Len(bytes).
ByteAt(bytes, i) == IF i >= 0 /\ i < Len(bytes) THEN bytes[i + 1] ELSE 0

\* The smaller of two numbers.
Min(a, b) == IF a < b THEN a ELSE b

\* Number of bytes of the character whose first byte is `byte`; 0 for a
\* continuation byte.  (The NULL-pointer case is decided by the callers.)
linedit_utf8numberofbytes(byte) ==
    IF byte \div 64 = 2 THEN 0            \* (byte & 0xc0) == 0x80
    ELSE IF byte \div 8 = 30 THEN 4       \* (byte & 0xf8) == 0xf0
    ELSE IF byte \div 16 = 14 THEN 3      \* (byte & 0xf0) == 0xe0
    ELSE IF byte \div 32 = 6 THEN 2       \* (byte & 0xe0) == 0xc0
    ELSE 1

\* The loop of linedit_utf8count from byte index c up to (not including)
\* byte index end; -1 when a leading byte has no valid length.
RECURSIVE utf8countfrom(_, _, _, _)
utf8countfrom(bytes, c, end, n) ==
    IF c < end /\ ByteAt(bytes, c) # 0
    THEN LET len == linedit_utf8numberofbytes(ByteAt(bytes, c))
         IN  IF len = 0 THEN -1 ELSE utf8countfrom(bytes, c + len, end, n + 1)
    ELSE n

\* Number of UTF-8 characters in the `length` bytes that start at byte index
\* `start`; -1 on failure.
linedit_utf8count(bytes, start, length) == utf8countfrom(bytes, start, start + length, 0)

(* ---------------------------------------------------------------------- *)
(* Strings                                                                 *)
(* ---------------------------------------------------------------------- *)

\* linedit_stringinit / linedit_stringclear: an unallocated string.
linedit_stringinit == [alloc |-> FALSE, bytes |-> <<>>, cap |-> 0]

\* The loop of linedit_stringutf8index; -1 for `return false`.
RECURSIVE utf8indexfrom(_, _, _, _, _)
utf8indexfrom(string, i, offset, j, nchars) ==
    IF j + offset > Len(string.bytes) THEN -1
    ELSE IF nchars = i THEN j
    ELSE LET advance == IF string.alloc
                        THEN linedit_utf8numberofbytes(ByteAt(string.bytes, offset + j))
                        ELSE 0      \* linedit_utf8numberofbytes(NULL)
         IN  IF advance = 0 THEN -1
             ELSE utf8indexfrom(string, i, offset, j + advance, nchars + 1)

\* Offset in bytes, from byte `offset`, of character i; -1 when there is none.
linedit_stringutf8index(string, i, offset) == utf8indexfrom(string, i, offset, 0, 0)

\* The growth loop of linedit_stringresize: x1.5 until above size.
RECURSIVE growsize(_, _)
growsize(newsize, size) ==
    IF newsize <= size THEN growsize(((newsize * 2) + newsize) \div 2, size) ELSE newsize

\* linedit_stringresize (the allocation is taken to succeed).
linedit_stringresize(string, size) ==
    [alloc |-> TRUE,
     bytes |-> IF string.alloc THEN string.bytes ELSE <<>>,
     cap   |-> growsize(linedit_MINIMUMSTRINGSIZE, size)]

\* linedit_stringappend: add the bytes c at the end.
linedit_stringappend(string, c) ==
    LET s == IF string.cap <= Len(string.bytes) + Len(c)
             THEN linedit_stringresize(string, Len(string.bytes) + Len(c) + 1)
             ELSE string
    IN  [s EXCEPT !.bytes = @ \o c]

\* The string grown as linedit_stringinsert grows it before its memmove.
stringinsertgrown(string, c) ==
    IF string.cap <= Len(string.bytes) + Len(c)
    THEN linedit_stringresize(string, Len(string.bytes) + Len(c) + 1)
    ELSE string

\* linedit_stringinsert: insert the bytes c before character posn.
linedit_stringinsert(string, posn, c) ==
    LET offset == linedit_stringutf8index(string, posn, 0)
    IN  IF offset < 0 THEN string
        ELSE IF offset < Len(string.bytes)
        THEN [stringinsertgrown(string, c) EXCEPT
                 !.bytes = SubSeq(string.bytes, 1, offset) \o c
                           \o SubSeq(string.bytes, offset + 1, Len(string.bytes))]
        ELSE linedit_stringappend(string, c)

\* The first memmove of linedit_stringinsert moves length-posn+1 bytes, posn
\* being a character index, from byte offset to byte offset+n: TRUE when the
\* last byte it writes lies at or behind the capacity (a heap overflow).
stringinsertoverflows(string, posn, c) ==
    LET offset == linedit_stringutf8index(string, posn, 0)
    IN  /\ offset >= 0
        /\ offset < Len(string.bytes)
        /\ offset + Len(c) + (Len(string.bytes) - posn + 1) > stringinsertgrown(string, c).cap

\* A deletion that takes posn and n for bytes.
stringdelete_bytes(string, posn, n) ==
    [string EXCEPT !.bytes = SubSeq(string.bytes, 1, posn)
                             \o SubSeq(string.bytes, posn + n + 1, Len(string.bytes))]

\* linedit_stringdelete: delete n characters from character posn.
linedit_stringdelete(string, posn, n) ==
    IF Len(string.bytes) < n THEN string
    ELSE LET offset == linedit_stringutf8index(string, posn, 0)
             nbytes == IF offset < 0 THEN -1 ELSE linedit_stringutf8index(string, n, offset)
         IN  IF offset < 0 \/ nbytes < 0 THEN string
             ELSE IF offset < Len(string.bytes)
             THEN IF offset + nbytes < Len(string.bytes)
                  THEN [string EXCEPT !.bytes = SubSeq(string.bytes, 1, offset)
                                        \o SubSeq(string.bytes, offset + nbytes + 1, Len(string.bytes))]
                  ELSE [string EXCEPT !.bytes = SubSeq(string.bytes, 1, offset)]
             ELSE string

\* linedit_stringaddcstring: add the C string s (not NULL) at the end.
linedit_stringaddcstring(string, s) ==
    LET r == IF string.cap <= Len(string.bytes) + Len(s) + 1
             THEN linedit_stringresize(string, Len(string.bytes) + Len(s) + 1)
             ELSE string
    IN  [r EXCEPT !.bytes = @ \o s]

\* linedit_stringlength: the length in characters (count starts at 0 and is
\* left there when linedit_utf8count fails).
linedit_stringlength(string) ==
    LET count == linedit_utf8count(string.bytes, 0, Len(string.bytes))
    IN  IF count < 0 THEN 0 ELSE count

\* The loop of linedit_stringcoordinates from byte i, character n: <<x, y>>.
RECURSIVE coordinatesfrom(_, _, _, _, _, _)
coordinatesfrom(string, posn, i, n, x, y) ==
    IF i < Len(string.bytes) /\ n # posn
    THEN LET c   == ByteAt(string.bytes, i)
             adv == linedit_utf8numberofbytes(c)
             x1  == IF c = 10 THEN 0 ELSE x + 1
             y1  == IF c = 10 THEN y + 1 ELSE y
         IN  IF adv = 0 THEN <<x1, y1>>
             ELSE coordinatesfrom(string, posn, i + adv, n + 1, x1, y1)
    ELSE <<x, y>>

\* linedit_stringcoordinates: column and line of character posn (posn = -1:
\* of the end of the string).
linedit_stringcoordinates(string, posn) == coordinatesfrom(string, posn, 0, 0, 0, 0)

\* The loop of linedit_stringfindposition.
RECURSIVE findpositionfrom(_, _, _, _, _, _, _)
findpositionfrom(string, x, y, i, n, xx, yy) ==
    IF i < Len(string.bytes) /\ ~(xx = x /\ yy = y)
    THEN LET c   == ByteAt(string.bytes, i)
             adv == linedit_utf8numberofbytes(c)
             xx1 == IF c = 10 THEN 0 ELSE xx + 1
             yy1 == IF c = 10 THEN yy + 1 ELSE yy
         IN  IF c = 10 /\ yy1 > y THEN n
             ELSE IF adv = 0 THEN n
             ELSE findpositionfrom(string, x, y, i + adv, n + 1, xx1, yy1)
    ELSE n

\* A search that looks for column x on the first line whatever y is.
stringfindposition_firstline(string, x, y) == findpositionfrom(string, x, 0, 0, 0, 0, 0)

\* linedit_stringfindposition: the character position of column x (-1: the
\* end of the line) on line y.
linedit_stringfindposition(string, x, y) == findpositionfrom(string, x, y, 0, 0, 0, 0)

\* linedit_cstring: string->string, which is NULL for a string that holds no
\* allocation.
linedit_cstring(string) == [null |-> ~string.alloc, bytes |-> string.bytes]

\* linedit_stringcountlines: the number of line breaks.
linedit_stringcountlines(string) == linedit_stringcoordinates(string, -1)[2]

(* ---------------------------------------------------------------------- *)
(* Lists of strings: a sequence of C strings, first element first          *)
(* ---------------------------------------------------------------------- *)

\* linedit_stringlistadd: a copy of the C string becomes the first element.
linedit_stringlistadd(list, string) == <<string>> \o list

\* linedit_stringlistremove finding no element to remove.
stringlistremove_none(list) == list

\* linedit_stringlistremove, called with list->first: drop the first element
\* (nothing to drop in an empty list).
linedit_stringlistremove(list) == IF list = <<>> THEN list ELSE Tail(list)

\* linedit_stringlistselect stopping one element before the last.
stringlistselect_short(list, n) ==
    IF Len(list) <= 1 THEN 0
    ELSE IF n >= 0 /\ n <= Len(list) - 2 THEN n
    ELSE Len(list) - 2

\* The index *m that linedit_stringlistselect reports for n.  n is an
\* unsigned int, held here as its 32-bit two's-complement pattern: the loop
\* counter i runs 0, 1, ... and stops at the last element, so a pattern
\* with the top bit set (n < 0 here, n >= 2^31 unsigned) is never met.
linedit_stringlistselect(list, n) ==
    IF list = <<>> THEN 0
    ELSE IF n >= 0 /\ n <= Len(list) - 1 THEN n
    ELSE Len(list) - 1

(* ---------------------------------------------------------------------- *)
(* Callbacks installed by the host                                         *)
(* ---------------------------------------------------------------------- *)

\* TRUE when the bytes end with the bytes of suffix.
EndsWith(bytes, suffix) ==
    /\ Len(bytes) >= Len(suffix)
    /\ SubSeq(bytes, Len(bytes) - Len(suffix) + 1, Len(bytes)) = suffix

\* The list a completer leaves after its linedit_addsuggestion calls (each
\* call pushes at the front).  "hello" offers "llo" when the input ends with
\* "he"; "prompt" offers "a" at an empty input, and "a" then ";" when the
\* input ends with "a".
Completer(completer, in) ==
    CASE completer = "hello" ->
            IF EndsWith(in, ch_h \o ch_e) THEN <<str_llo>> ELSE <<>>
      [] completer = "prompt" ->
            IF in = <<>> THEN <<ch_a>>
            ELSE IF EndsWith(in, ch_a) THEN <<ch_semicolon, ch_a>>
            ELSE <<>>
      [] OTHER -> <<>>

\* nb of cli_multiline after the bytes from index i on.
RECURSIVE bracketbalance(_, _, _)
bracketbalance(in, i, nb) ==
    IF i > Len(in) THEN nb
    ELSE bracketbalance(in, i + 1,
            IF in[i] \in {40, 123, 91} THEN nb + 1
            ELSE IF in[i] \in {41, 125, 93} THEN nb - 1
            ELSE nb)

\* cli_multiline: more brackets opened than closed.
cli_multiline(in) == bracketbalance(in, 1, 0) > 0

\* The multi-line predicate of the host.  "brace" is cli_multiline;
\* "terminated" asks for continuation until the input ends with ';'.
Multiline(multiline, in) ==
    CASE multiline = "brace" -> cli_multiline(in)
      [] multiline = "terminated" -> ~EndsWith(in, ch_semicolon)
      [] OTHER -> FALSE

\* The grapheme splitter of the host ("combining"): a code point and the
\* combining acute accents (U+0301) that follow it.
RECURSIVE combiningfrom(_, _)
combiningfrom(bytes, i) ==
    IF ByteAt(bytes, i) = 204 /\ ByteAt(bytes, i + 1) = 129
    THEN 2 + combiningfrom(bytes, i + 2)
    ELSE 0

GraphemeFn(bytes, i) ==
    LET n == linedit_utf8numberofbytes(ByteAt(bytes, i))
    IN  IF n = 0 THEN 0 ELSE n + combiningfrom(bytes, i + n)

(* ---------------------------------------------------------------------- *)
(* Get and set editor state.  An editor e is the lineditor structure:      *)
(* [mode, posn, sposn, current, clipboard, history, hposn, suggestions,    *)
(*  sugposn, completer, multiline, graphemefn], hposn and sugposn being    *)
(* history.posn and suggestions.posn.                                      *)
(* ---------------------------------------------------------------------- *)

\* linedit_setmode
linedit_setmode(e, mode) ==
    LET e1 == IF mode # "HISTORY"
              THEN [e EXCEPT !.history = IF e.mode = "HISTORY"
                                         THEN linedit_stringlistremove(@) ELSE @,
                             !.hposn = 0]
              ELSE e
        e2 == IF mode = "SELECTION"
              THEN [e1 EXCEPT !.sposn = IF @ < 0 THEN e1.posn ELSE @]
              ELSE [e1 EXCEPT !.sposn = -1]
    IN  [e2 EXCEPT !.mode = mode]

\* linedit_setposition: posn < 0 moves to the end.
linedit_setposition(e, posn) ==
    [e EXCEPT !.posn = IF posn < 0 THEN linedit_stringlength(e.current) ELSE posn]

\* linedit_advanceposition
linedit_advanceposition(e, delta) ==
    LET p         == IF e.posn + delta < 0 THEN 0 ELSE e.posn + delta
        linewidth == linedit_stringlength(e.current)
    IN  [e EXCEPT !.posn = IF p > linewidth THEN linewidth ELSE p]

\* linedit_atend
linedit_atend(e) == e.posn = linedit_stringlength(e.current)

(* ---------------------------------------------------------------------- *)
(* History list                                                            *)
(* ---------------------------------------------------------------------- *)

\* linedit_historyadd adding the entry at the back of the list.
historyadd_atback(e, string) == [e EXCEPT !.history = Append(@, string)]

\* linedit_historyadd
linedit_historyadd(e, string) ==
    [e EXCEPT !.history = linedit_stringlistadd(@, string)]

\* linedit_historyselect: the selected entry replaces the buffer (length is
\* set to 0, then the entry is added); nothing happens on an empty list.
linedit_historyselect(e, n) ==
    IF e.history = <<>> THEN e
    ELSE [e EXCEPT !.current = linedit_stringaddcstring(
                        [@ EXCEPT !.bytes = <<>>],
                        e.history[linedit_stringlistselect(e.history, n) + 1])]

\* linedit_historyadvance.  n is an unsigned int, given as its two's-
\* complement pattern (-1 for the (unsigned) -1 that DOWN passes): the sum
\* history.posn + n wraps modulo 2^32, which the pattern sum is.
linedit_historyadvance(e, n) ==
    LET posn == e.hposn + n
    IN  [linedit_historyselect(e, posn) EXCEPT
            !.hposn = linedit_stringlistselect(e.history, posn)]

(* ---------------------------------------------------------------------- *)
(* Autocompletion                                                          *)
(* ---------------------------------------------------------------------- *)

\* linedit_generatesuggestions leaving the suggestions as they are.
generatesuggestions_never(e) == e

\* linedit_generatesuggestions
linedit_generatesuggestions(e) ==
    IF e.completer # "none"
    THEN [e EXCEPT !.sugposn = 0,
                   !.suggestions = IF e.current.alloc /\ linedit_atend(e)
                                   THEN Completer(e.completer, e.current.bytes)
                                   ELSE <<>>]
    ELSE e

\* linedit_aresuggestionsavailable
linedit_aresuggestionsavailable(e) == e.suggestions # <<>>

\* linedit_currentsuggestion (only used with a non-empty list here).
linedit_currentsuggestion(e) ==
    e.suggestions[linedit_stringlistselect(e.suggestions, e.sugposn) + 1]

\* linedit_advancesuggestions staying on the last suggestion.
advancesuggestions_stay(e, n) ==
    [e EXCEPT !.sugposn = linedit_stringlistselect(e.suggestions, e.sugposn + n)]

\* linedit_advancesuggestions
linedit_advancesuggestions(e, n) ==
    LET rposn == e.sugposn + n
        nposn == linedit_stringlistselect(e.suggestions, rposn)
    IN  [e EXCEPT !.sugposn = IF rposn # nposn THEN 0 ELSE nposn]

(* ---------------------------------------------------------------------- *)
(* Multiline mode                                                          *)
(* ---------------------------------------------------------------------- *)

\* linedit_shouldmultiline
linedit_shouldmultiline(e) ==
    IF e.multiline # "none" /\ e.current.alloc
    THEN Multiline(e.multiline, e.current.bytes)
    ELSE FALSE

(* ---------------------------------------------------------------------- *)
(* Process key presses.  The handler of a key gives                         *)
(*   [e, cont, regen, fault, atfault]:                                      *)
(* e the editor after the key, cont FALSE when linedit_processkeypress      *)
(* returns false on it, regen the value left in regeneratesuggestions,      *)
(* fault TRUE when the key executes undefined behaviour (a read through a   *)
(* NULL pointer, a write behind the capacity) and atfault the editor at     *)
(* that point.                                                              *)
(* ---------------------------------------------------------------------- *)

Done(e, regen) == [e |-> e, cont |-> TRUE, regen |-> regen, fault |-> FALSE, atfault |-> e]

Returns(e, regen) == [e |-> e, cont |-> FALSE, regen |-> regen, fault |-> FALSE, atfault |-> e]

Faulty(e, regen, atfault) ==
    [e |-> e, cont |-> TRUE, regen |-> regen, fault |-> TRUE, atfault |-> atfault]

\* linedit_graphemelength at byte index i of the buffer (not NULL).
linedit_graphemelength(e, i) ==
    IF ByteAt(e.current.bytes, i) = 0 THEN 0
    ELSE IF e.graphemefn # "none" THEN GraphemeFn(e.current.bytes, i)
    ELSE linedit_utf8numberofbytes(ByteAt(e.current.bytes, i))

\* linedit_nextgrapheme reads *str, str being linedit_stringlocate's result:
\* NULL when the buffer is unallocated (NULL + 0) or posn has no character.
nextgraphemefaults(e) ==
    \/ ~e.current.alloc
    \/ linedit_stringutf8index(e.current, e.posn, 0) < 0

\* linedit_nextgrapheme stepping one character on wherever the cursor is.
nextgrapheme_always(e) == [e EXCEPT !.posn = @ + 1]

\* The end of linedit_nextgrapheme and linedit_prevgrapheme: posn moves by
\* count characters in the direction sign, unless linedit_utf8count failed.
graphememove(e, count, sign) ==
    IF count < 0 THEN e ELSE [e EXCEPT !.posn = @ + sign * count]

\* linedit_nextgrapheme from the byte index str of the cursor.
nextgraphemeat(e, str) ==
    graphememove(e, linedit_utf8count(e.current.bytes, str, linedit_graphemelength(e, str)), 1)

\* linedit_nextgrapheme, when str is not NULL.
linedit_nextgrapheme(e) ==
    nextgraphemeat(e, linedit_stringutf8index(e.current, e.posn, 0))

\* The loop of linedit_prevgrapheme: the start of the last grapheme that
\* begins before str; -1 when a grapheme of length 0 is met.
RECURSIVE prevgraphemefrom(_, _, _, _)
prevgraphemefrom(e, c, str, prev) ==
    IF c < str
    THEN LET len == linedit_graphemelength(e, c)
         IN  IF len = 0 THEN -1 ELSE prevgraphemefrom(e, c + len, str, c)
    ELSE prev

\* The count of linedit_prevgrapheme, from prev to str.
prevgraphemecount(e, str, prev) ==
    IF prev < 0 THEN -1
    ELSE linedit_utf8count(e.current.bytes, prev,
                           IF str < 0 THEN Len(e.current.bytes) ELSE str - prev)

\* linedit_prevgrapheme from the byte index str of the cursor.
prevgraphemeat(e, str) ==
    graphememove(e, prevgraphemecount(e, str, IF str < 0 THEN 0
                                              ELSE prevgraphemefrom(e, 0, str, 0)), -1)

\* linedit_prevgrapheme.  With str NULL (posn has no character) the loop is
\* not entered and the count runs from the start to the terminator.
linedit_prevgrapheme(e) ==
    prevgraphemeat(e, linedit_stringutf8index(e.current, e.posn, 0))

\* linedit_processarrowkeypress after its linedit_setmode.
arrowkeypressmove(e, delta, regen) ==
    IF delta > 0
    THEN IF nextgraphemefaults(e)
         THEN Faulty(e, regen, e)
         ELSE Done(linedit_nextgrapheme(e), regen)
    ELSE Done(linedit_prevgrapheme(e), regen)

\* linedit_processarrowkeypress
linedit_processarrowkeypress(e, mode, delta, regen) ==
    arrowkeypressmove(linedit_setmode(e, mode), delta, regen)

\* linedit_processchangeline moving to the start of the line in place of the
\* column the cursor was in.
processchangeline_samecolumnzero(e, delta) ==
    LET e1 == linedit_setmode(e, "DEFAULT")
        xy == linedit_stringcoordinates(e1.current, e1.posn)
        y  == IF xy[2] + delta < 0 THEN 0 ELSE xy[2] + delta
    IN  [e1 EXCEPT !.posn = linedit_stringfindposition(e1.current, 0, y)]

\* The end of linedit_processchangeline: the cursor goes to column xy[1] of
\* the line delta from line xy[2], and not above the first line.
changelineat(e, xy, delta) ==
    [e EXCEPT !.posn = linedit_stringfindposition(
                           e.current, xy[1], IF xy[2] + delta < 0 THEN 0 ELSE xy[2] + delta)]

\* linedit_processchangeline after its linedit_setmode.
changelinefrom(e, delta) ==
    changelineat(e, linedit_stringcoordinates(e.current, e.posn), delta)

\* linedit_processchangeline
linedit_processchangeline(e, delta) ==
    changelinefrom(linedit_setmode(e, "DEFAULT"), delta)

\* What an insertion of c at the cursor of e that gives e2 comes to: undefined
\* behaviour when the memmove of linedit_stringinsert writes behind the
\* capacity.
inserted(e, c, regen, e2) ==
    IF stringinsertoverflows(e.current, e.posn, c)
    THEN Faulty(e2, regen, e)
    ELSE Done(e2, regen)

\* An insertion at the cursor followed by linedit_advanceposition(delta), as
\* the CHARACTER, TAB and Ctrl-V cases do it (e is the editor after
\* linedit_setmode).
insertatcursor(e, c, delta, regen) ==
    inserted(e, c, regen, linedit_advanceposition(
                              [e EXCEPT !.current = linedit_stringinsert(@, e.posn, c)], delta))

\* The bounds of the selection, as the DELETE and Ctrl-C cases compute them.
lposn(e) == IF e.sposn < e.posn THEN e.sposn ELSE e.posn
rposn(e) == IF e.sposn < e.posn THEN e.posn ELSE e.sposn

\* case CHARACTER, key.c being the bytes c
key_CHARACTER(e, c, regen) ==
    insertatcursor(linedit_setmode(e, "DEFAULT"), c, 1, regen)

\* case DELETE leaving the cursor where it is after deleting a selection.
key_DELETE_cursorstays(e, regen) ==
    LET e1 == IF e.mode = "SELECTION"
              THEN [e EXCEPT !.current = linedit_stringdelete(@, lposn(e), rposn(e) - lposn(e))]
              ELSE IF e.posn > 0
              THEN linedit_advanceposition(
                      [e EXCEPT !.current = linedit_stringdelete(@, e.posn - 1, 1)], -1)
              ELSE e
    IN  Done(linedit_setmode(e1, "DEFAULT"), regen)

\* case DELETE
key_DELETE(e, regen) ==
    LET e1 == IF e.mode = "SELECTION"
              THEN [e EXCEPT !.current = linedit_stringdelete(@, lposn(e), rposn(e) - lposn(e)),
                             !.posn = lposn(e)]
              ELSE IF e.posn > 0
              THEN linedit_advanceposition(
                      [e EXCEPT !.current = linedit_stringdelete(@, e.posn - 1, 1)], -1)
              ELSE e
    IN  Done(linedit_setmode(e1, "DEFAULT"), regen)

\* case UP
key_UP(e, regen) ==
    LET e1 == IF e.mode # "HISTORY"
              THEN linedit_historyadd(linedit_setmode(e, "HISTORY"),
                        IF e.current.alloc THEN e.current.bytes ELSE <<>>)
              ELSE e
    IN  Done(linedit_setposition(linedit_historyadvance(e1, 1), -1), regen)

\* case DOWN
key_DOWN(e, regen) ==
    IF e.mode = "HISTORY"
    THEN Done(linedit_setposition(linedit_historyadvance(e, -1), -1), regen)
    ELSE IF linedit_aresuggestionsavailable(e)
    THEN Done(linedit_advancesuggestions(e, 1), FALSE)
    ELSE Done(e, regen)

\* case RETURN
key_RETURN(e, regen) ==
    IF linedit_shouldmultiline(e)
    THEN Done(linedit_advanceposition(
                [e EXCEPT !.current = linedit_stringaddcstring(@, ch_newline)], 1), regen)
    ELSE Returns(e, regen)

\* case TAB (linedit_movetoend leaves posn at the end of the buffer)
key_TAB(e, regen) ==
    LET e1 == linedit_setmode(e, "DEFAULT")
    IN  IF linedit_aresuggestionsavailable(e1)
        THEN Done(linedit_setposition(
                    [e1 EXCEPT !.current = linedit_stringaddcstring(@, linedit_currentsuggestion(e1))],
                    -1), regen)
        ELSE insertatcursor(e1, ch_tab, 1, regen)

\* case CTRL, 'A' and 'E': start (x = 0) and end (x = -1) of the line
key_CTRL_AE(e, x, regen) ==
    LET e1 == linedit_setmode(e, "DEFAULT")
        line == linedit_stringcoordinates(e1.current, e1.posn)[2]
    IN  Done([e1 EXCEPT !.posn = linedit_stringfindposition(e1.current, x, line)], regen)

\* case CTRL, 'C' copying from the start of the selection to the end of the
\* buffer.
key_CTRL_C_toend(e, regen) ==
    IF e.mode = "SELECTION"
    THEN LET lindx == linedit_stringutf8index(e.current, lposn(e), 0)
         IN  IF lindx < 0 THEN Done(e, regen)
             ELSE Done([e EXCEPT !.clipboard = linedit_stringappend(linedit_stringinit,
                                    SubSeq(e.current.bytes, lindx + 1, Len(e.current.bytes)))], regen)
    ELSE Done(e, regen)

\* case CTRL, 'C': copy
key_CTRL_C(e, regen) ==
    IF e.mode = "SELECTION"
    THEN LET lindx == linedit_stringutf8index(e.current, lposn(e), 0)
             rindx == linedit_stringutf8index(e.current, rposn(e), 0)
         IN  IF lindx < 0 \/ rindx < 0 THEN Done(e, regen)
             ELSE Done([e EXCEPT !.clipboard = linedit_stringappend(linedit_stringinit,
                                    SubSeq(e.current.bytes, lindx + 1, rindx))], regen)
    ELSE Done(e, regen)

\* case CTRL, 'D': delete the character underneath the cursor
key_CTRL_D(e, regen) ==
    LET e1 == linedit_setmode(e, "DEFAULT")
    IN  Done([e1 EXCEPT !.current = linedit_stringdelete(@, e1.posn, 1)], regen)

\* case CTRL, 'G' leaving the buffer as it is.
key_CTRL_G_keeps(e, regen) == Returns(e, regen)

\* case CTRL, 'G': abort
key_CTRL_G(e, regen) ==
    Returns([e EXCEPT !.current = linedit_stringinit, !.posn = 0], regen)

\* case CTRL, 'L': clear buffer
key_CTRL_L(e, regen) ==
    Done([linedit_setmode(e, "DEFAULT") EXCEPT !.current = linedit_stringinit, !.posn = 0], regen)

\* case CTRL, 'V': paste
key_CTRL_V(e, regen) ==
    LET e1 == linedit_setmode(e, "DEFAULT")
    IN  IF Len(e1.clipboard.bytes) > 0
        THEN insertatcursor(e1, e1.clipboard.bytes, linedit_stringlength(e1.clipboard), regen)
        ELSE Done(e1, regen)

\* The switch of linedit_processkeypress on one key <<type>> or <<type, c>>.
processkey(e, key, regen) ==
    CASE key[1] = "CHARACTER"   -> key_CHARACTER(e, key[2], regen)
      [] key[1] = "DELETE"      -> key_DELETE(e, regen)
      [] key[1] = "LEFT"        -> linedit_processarrowkeypress(e, "DEFAULT", -1, regen)
      [] key[1] = "RIGHT"       -> linedit_processarrowkeypress(e, "DEFAULT", 1, regen)
      [] key[1] = "SHIFT_LEFT"  -> linedit_processarrowkeypress(e, "SELECTION", -1, regen)
      [] key[1] = "SHIFT_RIGHT" -> linedit_processarrowkeypress(e, "SELECTION", 1, regen)
      [] key[1] = "UP"          -> key_UP(e, regen)
      [] key[1] = "DOWN"        -> key_DOWN(e, regen)
      [] key[1] = "RETURN"      -> key_RETURN(e, regen)
      [] key[1] = "TAB"         -> key_TAB(e, regen)
      [] key[1] = "CTRL" ->
            CASE key[2] = "A" -> key_CTRL_AE(e, 0, regen)
              [] key[2] = "B" -> linedit_processarrowkeypress(e, "DEFAULT", -1, regen)
              [] key[2] = "C" -> key_CTRL_C(e, regen)
              [] key[2] = "D" -> key_CTRL_D(e, regen)
              [] key[2] = "E" -> key_CTRL_AE(e, -1, regen)
              [] key[2] = "F" -> linedit_processarrowkeypress(e, "DEFAULT", 1, regen)
              [] key[2] = "G" -> key_CTRL_G(e, regen)
              [] key[2] = "L" -> key_CTRL_L(e, regen)
              [] key[2] = "N" -> Done(linedit_processchangeline(e, 1), regen)
              [] key[2] = "P" -> Done(linedit_processchangeline(e, -1), regen)
              [] key[2] = "V" -> key_CTRL_V(e, regen)
              [] OTHER -> Done(e, regen)
      [] OTHER -> Done(e, regen)

(* ---------------------------------------------------------------------- *)
(* The editor, its sessions and the host                                   *)
(* ---------------------------------------------------------------------- *)

VARIABLES
    edit,       \* the lineditor structure
    pc,         \* "idle": outside linedit(); "editing": in the key loop of
                \* linedit_supported; "crashed": after undefined behaviour;
                \* "noterminal", "unsupported": in the reader of that name;
                \* once stdin is at its end "reading_eof" and "polling_eof"
                \* (in linedit_processkeypress, before linedit_readkey and
                \* before linedit_keypressavailable), "noterminal_eof",
                \* "unsupported_eof", and "ended" when linedit() has returned
    more,       \* the last answer of linedit_keypressavailable: TRUE inside a burst
    regen,      \* regeneratesuggestions of linedit_processkeypress after the last key
    scenario,   \* which host is modelled: its callbacks and what the user types
    nsess,      \* the number of linedit() calls so far
    lastkey,    \* the key handled last in this session (<<>>: none yet)
    ups,        \* how many UP keypresses in a row, the first from a non-history mode
    hist0,      \* the history list when the session started
    snap,       \* the buffer when UP entered history mode (<<>> outside it)
    returned,   \* the non-empty buffers the sessions returned, newest first
    typed,      \* the keys of the session, while they follow a script
    seps,       \* for each key in typed: did its burst end with it
    downs,      \* the DOWN keypresses that cycled the suggestions since they
                \* were last generated
    term,       \* the terminal: its attributes, the copy of them in terminit,
                \* termexitregistered, and how the last linedit_enablerawmode
                \* went ("none" before the first)
    screen,     \* the rows of the terminal, counted from the row on which the
                \* session began: vpos and nlines of linedit_supported, the
                \* row of the cursor, and the row on which linedit_redraw
                \* last wrote the prompt; followed only where watched is TRUE
    stdin,      \* the bytes of the keys where the keys are followed as bytes:
                \* ready are the bytes waiting to be read, later the keys the
                \* user has yet to press, each as its bytes
    call        \* the last call of a string function made on its own: its
                \* arguments, the string it left, and whether it wrote
                \* beyond the allocation

vars == <<edit, pc, more, regen, scenario, nsess, lastkey, ups, hist0, snap,
          returned, typed, seps, downs, term, screen, stdin, call>>

\* Values an uninitialised int may hold (linedit_init sets neither posn nor sposn).
Indeterminate == {-1, 0, 2}

\* The hosts modelled: the callbacks each installs after linedit_init.
Scenarios ==
    { [name |-> "plain",      completer |-> "none",   multiline |-> "none",       graphemefn |-> "none"],
      [name |-> "hello",      completer |-> "hello",  multiline |-> "none",       graphemefn |-> "none"],
      [name |-> "brace",      completer |-> "none",   multiline |-> "brace",      graphemefn |-> "none"],
      [name |-> "terminated", completer |-> "prompt", multiline |-> "terminated", graphemefn |-> "none"],
      [name |-> "grapheme",   completer |-> "none",   multiline |-> "none",       graphemefn |-> "combining"],
      [name |-> "history",    completer |-> "none",   multiline |-> "none",       graphemefn |-> "none"],
      [name |-> "again",      completer |-> "prompt", multiline |-> "none",       graphemefn |-> "none"] }

\* The characters the user types in each scenario.
Chars(name) ==
    CASE name = "plain"      -> {ch_a, ch_euro}
      [] name = "hello"      -> {ch_h, ch_e}
      [] name = "brace"      -> {ch_f, ch_lbrace, ch_rbrace}
      [] name = "terminated" -> {ch_a, ch_semicolon}
      [] name = "grapheme"   -> {ch_a, ch_acute}
      [] name = "history"    -> {ch_a, ch_e}
      [] name = "again"      -> {ch_a, ch_euro}

\* The Ctrl+letter keys the user presses in each scenario ("K" is bound to
\* nothing).
CtrlLetters(name) ==
    CASE name = "plain"      -> {"A", "C", "V", "K"}
      [] name = "hello"      -> {"G"}
      [] name = "brace"      -> {"A", "E", "G", "N", "P"}
      [] name = "terminated" -> {"G", "L"}
      [] name = "grapheme"   -> {"B", "F", "D"}
      [] name = "history"    -> {"G"}
      [] name = "again"      -> {"C", "G"}

\* The keys without an argument the user presses in each scenario.
PlainKeys(name) ==
    CASE name = "plain"      -> {"DELETE", "LEFT", "RIGHT", "SHIFT_LEFT", "SHIFT_RIGHT",
                                 "RETURN"}
      [] name = "hello"      -> {"DELETE", "LEFT", "DOWN", "RETURN", "TAB"}
      [] name = "brace"      -> {"DELETE", "LEFT", "RIGHT", "UP", "DOWN", "RETURN", "TAB"}
      [] name = "terminated" -> {"DELETE", "LEFT", "DOWN", "RETURN", "TAB"}
      [] name = "grapheme"   -> {"DELETE", "LEFT", "RIGHT", "RETURN", "TAB", "UNKNOWN"}
      [] name = "history"    -> {"DELETE", "UP", "DOWN", "RETURN"}
      [] name = "again"      -> {"SHIFT_LEFT", "UP", "RETURN"}

\* The answers of linedit_keypressavailable in each scenario: keys arrive one
\* by one (FALSE) or also in bursts.
Bursts(name) ==
    IF name \in {"hello", "terminated"} THEN BOOLEAN ELSE {FALSE}

\* The linedit() calls made in each scenario.
Sessions(name) ==
    IF name = "history" THEN MaxSessions
    ELSE IF name = "again" THEN 2
    ELSE 1

\* The number of characters up to which the user goes on typing in each
\* scenario.
TypeLimit(name) ==
    IF name \in {"hello", "history", "again"} THEN MaxTyped
    ELSE IF name = "brace" THEN MaxLen + 1
    ELSE MaxLen

\* The key sequences of the end-to-end scenarios that are followed key by key.
ScriptHello == << <<"CHARACTER", ch_h>>, <<"CHARACTER", ch_e>>, <<"TAB">>, <<"RETURN">> >>
ScriptBrace == << <<"CHARACTER", ch_f>>, <<"CHARACTER", ch_lbrace>>, <<"RETURN">>,
                  <<"CHARACTER", ch_rbrace>>, <<"RETURN">> >>
Scripts == {ScriptHello, ScriptBrace}
OffScript == << <<"other">> >>

IsScriptPrefix(keys) ==
    \E sc \in Scripts : Len(keys) <= Len(sc) /\ SubSeq(sc, 1, Len(keys)) = keys

(* ---------------------------------------------------------------------- *)
(* Grapheme width dictionary: [count, capacity, contents], contents being   *)
(* a sequence of capacity entries [grapheme, width]; an entry whose         *)
(* grapheme is <<>> is a blank one (grapheme == NULL), and contents = <<>>  *)
(* is contents == NULL.                                                     *)
(* ---------------------------------------------------------------------- *)

LINEDIT_MINDICTIONARYSIZE == 8

LINEDIT_SIZEINCREASETHRESHOLD(x) == (x \div 2) + (x \div 4)

LINEDIT_INCREASEDICTIONARYSIZE(x) == 2 * x

\* Whether plain char is signed in the build (it is on x86-64 and on Apple
\* arm64): key[i] is converted to int before it is xored into the hash.
CharIsSigned == TRUE

BlankEntry == [grapheme |-> <<>>, width |-> 0]

\* linedit_graphemeinit
linedit_graphemeinit == [count |-> 0, capacity |-> 0, contents |-> <<>>]

\* a ^ b on n-bit values.
RECURSIVE xorbits(_, _, _)
xorbits(a, b, n) ==
    IF n = 0 THEN 0
    ELSE ((a + b) % 2) + 2 * xorbits(a \div 2, b \div 2, n - 1)

\* a ^ b for 4-bit values, as a table.
Xor4 == [a \in 0..15 |-> [b \in 0..15 |-> xorbits(a, b, 4)]]

\* a ^ b for 8-bit values.
Xor8(a, b) == 16 * Xor4[a \div 16][b \div 16] + Xor4[a % 16][b % 16]

\* The loop of linedit_hashstring from byte i on; a uint32_t is kept as its
\* two 16-bit halves <<hi, lo>>, and 16777619 is 256 * 65536 + 403.  A
\* negative key[i] is converted to 0xFFFFFF00 | byte, so that the xor
\* complements the upper 24 bits.
RECURSIVE hashfrom(_, _, _)
hashfrom(key, i, hash) ==
    IF i > Len(key) THEN hash
    ELSE LET negative == CharIsSigned /\ key[i] >= 128
             hi    == IF negative THEN 65535 - hash[1] ELSE hash[1]
             upper == IF negative THEN 255 - (hash[2] \div 256) ELSE hash[2] \div 256
             lo    == 256 * upper + Xor8(hash[2] % 256, key[i])
             low   == lo * 403
         IN  hashfrom(key, i + 1,
                      << (hi * 403 + lo * 256 + (low \div 65536)) % 65536, low % 65536 >>)

\* The FNV-1a offset basis 2166136261 = 33052 * 65536 + 40389.
FNVoffset == <<33052, 40389>>

\* The hashes of the graphemes of more than one byte that the user types,
\* computed once.
KnownHashes ==
    [key \in {ch_euro, ch_acute, ch_a \o ch_acute, ch_acute \o ch_acute,
              ch_a \o ch_acute \o ch_acute} |-> hashfrom(key, 1, FNVoffset)]

\* linedit_hashstring
linedit_hashstring(key) ==
    IF key \in DOMAIN KnownHashes THEN KnownHashes[key] ELSE hashfrom(key, 1, FNVoffset)

\* hash % capacity
HashModulo(hash, capacity) ==
    ((hash[1] % capacity) * (65536 % capacity) + (hash[2] % capacity)) % capacity

\* strncmp(grapheme, stored, length) == 0 with length the length of grapheme:
\* the stored string starts with the bytes of grapheme.
graphemematches(grapheme, stored) ==
    /\ Len(stored) >= Len(grapheme)
    /\ SubSeq(stored, 1, Len(grapheme)) = grapheme

\* The do-while loop of linedit_graphemefind from slot i; posn is -1 where
\* the code leaves *posn unset.
RECURSIVE graphemefindfrom(_, _, _, _)
graphemefindfrom(dict, grapheme, start, i) ==
    IF dict.contents[i + 1].grapheme = <<>>
    THEN [found |-> FALSE, posn |-> i]
    ELSE IF graphemematches(grapheme, dict.contents[i + 1].grapheme)
    THEN [found |-> TRUE, posn |-> i]
    ELSE LET j == (i + 1) % dict.capacity
         IN  IF j = start THEN [found |-> FALSE, posn |-> -1]
             ELSE graphemefindfrom(dict, grapheme, start, j)

\* The probe of linedit_graphemefind, which starts at slot start.
graphemeprobe(dict, grapheme, start) == graphemefindfrom(dict, grapheme, start, start)

\* linedit_graphemefind
linedit_graphemefind(dict, grapheme) ==
    IF dict.contents = <<>> THEN [found |-> FALSE, posn |-> -1]
    ELSE graphemeprobe(dict, grapheme,
                       HashModulo(linedit_hashstring(grapheme), dict.capacity))

RECURSIVE linedit_graphemeinsert(_, _, _)
RECURSIVE graphemecopyfrom(_, _, _)

\* The copy loop of linedit_graphemeresize from entry i of the old contents.
graphemecopyfrom(dict, old, i) ==
    IF i > Len(old) THEN dict
    ELSE IF old[i].grapheme = <<>> THEN graphemecopyfrom(dict, old, i + 1)
    ELSE graphemecopyfrom(linedit_graphemeinsert(dict, old[i].grapheme, old[i].width),
                          old, i + 1)

\* linedit_graphemeresize
linedit_graphemeresize(dict, size) ==
    graphemecopyfrom([count |-> 0, capacity |-> size,
                      contents |-> [i \in 1..size |-> BlankEntry]],
                     dict.contents, 1)

\* The resize with which linedit_graphemeinsert begins.
graphemegrown(dict) ==
    IF dict.contents = <<>>
    THEN linedit_graphemeresize(dict, LINEDIT_MINDICTIONARYSIZE)
    ELSE IF dict.count + 1 > LINEDIT_SIZEINCREASETHRESHOLD(dict.capacity)
    THEN linedit_graphemeresize(dict, LINEDIT_INCREASEDICTIONARYSIZE(dict.capacity))
    ELSE dict

\* The end of linedit_graphemeinsert: the entry is stored in the slot f that
\* linedit_graphemefind answered, unless the grapheme was found or no slot is.
graphemestore(d, grapheme, width, f) ==
    IF f.found \/ f.posn < 0 THEN d
    ELSE [d EXCEPT !.contents[f.posn + 1] = [grapheme |-> grapheme, width |-> width],
                   !.count = @ + 1]

\* linedit_graphemeinsert after its resize.
graphemeinsertgrown(d, grapheme, width) ==
    graphemestore(d, grapheme, width, linedit_graphemefind(d, grapheme))

\* linedit_graphemeinsert
linedit_graphemeinsert(dict, grapheme, width) ==
    graphemeinsertgrown(graphemegrown(dict), grapheme, width)

\* What linedit_graphemelookup makes of f, the answer of linedit_graphemefind.
graphemelookupat(dict, f) ==
    IF f.found THEN [found |-> TRUE, width |-> dict.contents[f.posn + 1].width]
    ELSE [found |-> FALSE, width |-> 0]

\* linedit_graphemelookup: [found, width].
linedit_graphemelookup(dict, grapheme) ==
    graphemelookupat(dict, linedit_graphemefind(dict, grapheme))

\* iscntrl and isalpha in the C locale.
iscntrl(byte) == byte < 32 \/ byte = 127

isalpha(byte) == (byte >= 65 /\ byte <= 90) \/ (byte >= 97 /\ byte <= 122)

\* linedit_graphemedisplaywidth for the length bytes from byte index s of
\* str: is the width of the grapheme known.
linedit_graphemedisplaywidth(e, str, s, length) ==
    IF length = 1 THEN ~iscntrl(ByteAt(str, s))
    ELSE linedit_graphemelookup(e.graphemedict,
                                SubSeq(str, s + 1, Min(s + length, Len(str)))).found

\* linedit_graphemedisplaywidth with what it leaves in *width, which held w
\* at the call: for a length of 1 it returns 0 or 1 as its bool and does not
\* write *width.
graphemedisplaywidthout(e, grapheme, w) ==
    IF Len(grapheme) = 1
    THEN [known |-> ~iscntrl(grapheme[1]), width |-> w]
    ELSE [known |-> linedit_graphemelookup(e.graphemedict, grapheme).found,
          width |-> IF linedit_graphemelookup(e.graphemedict, grapheme).found
                    THEN linedit_graphemelookup(e.graphemedict, grapheme).width
                    ELSE w]

\* The columns the terminal's cursor moves when the grapheme is written to
\* it: none for a combining mark on its own.
TerminalAdvance(grapheme) == IF grapheme[1] = 204 THEN 0 ELSE 1

\* linedit_graphememeasurewidth
linedit_graphememeasurewidth(e, grapheme) ==
    LET x == TerminalAdvance(grapheme)
        w == IF x > 0 THEN x ELSE 1
    IN  [e EXCEPT !.graphemedict = linedit_graphemeinsert(@, grapheme, w)]

(* ---------------------------------------------------------------------- *)
(* Rendering.  The output string is a byte sequence in which a 0 byte      *)
(* stands for a '\0' that was appended to it.                               *)
(* ---------------------------------------------------------------------- *)

\* linedit_stringdefaulttext, linedit_stringsetemphasis: "\033[0m", "\033[7m"
\* and "\033[1m".
code_default == <<27, 91, 48, 109>>
code_reverse == <<27, 91, 55, 109>>
code_bold == <<27, 91, 49, 109>>

\* The character loop of linedit_addcstringwithselection from its turn i, c
\* being the byte index it has advanced to and lp, rp its lposn and rposn:
\* the loop takes one turn for each
\* BYTE of the string and advances a character in each, so that with
\* multi-byte characters it walks on beyond the end of the text.  It first
\* meets the terminator there, which it appends; nothing that it appends after
\* that is behind the first '\0' of the output.
RECURSIVE selectionloop(_, _, _, _, _, _)
selectionloop(in, lp, rp, i, c, out) ==
    IF i >= Len(in) THEN out
    ELSE LET out1 == out \o (IF i = lp THEN code_reverse ELSE <<>>)
                         \o (IF i = rp THEN code_default ELSE <<>>)
             nbytes == linedit_utf8numberofbytes(ByteAt(in, c))
         IN  IF c >= Len(in) THEN out1 \o <<0>>
             ELSE IF nbytes = 0 THEN selectionloop(in, lp, rp, i + 1, c + 1, out1)
             ELSE selectionloop(in, lp, rp, i + 1, c + nbytes,
                                out1 \o SubSeq(in, c + 1, Min(c + nbytes, Len(in))))

\* The selection bounds of linedit_addcstringwithselection at offset 0:
\* <<lposn, rposn>>, both -1 with no selection.
selectionbounds(e) ==
    IF e.mode = "SELECTION" /\ ~(e.sposn < 0)
    THEN << IF e.sposn < e.posn THEN e.sposn ELSE e.posn,
            IF e.sposn < e.posn THEN e.posn ELSE e.sposn >>
    ELSE <<-1, -1>>

\* linedit_plainstring: linedit_addcstringwithselection for the whole buffer
\* without a colour.
linedit_plainstring(e, out) ==
    LET in == e.current.bytes
        b  == selectionbounds(e)
    IN  IF b[2] < 0 \/ b[1] > Len(in) THEN out \o in
        ELSE selectionloop(in, b[1], b[2], 0, 0,
                           out \o (IF b[1] < 0 THEN code_reverse ELSE <<>>))

\* linedit_color: the colours used here.
LINEDIT_RED == 1
LINEDIT_DEFAULTCOLOR == 8

\* linedit_stringsetcolor: "\033[0m" for the default colour, "\033[3<col>m"
\* for another one.
linedit_stringsetcolor(col) ==
    IF col = LINEDIT_DEFAULTCOLOR THEN <<27, 91, 48, 109>>
    ELSE <<27, 91, 51, 48 + col, 109>>

\* linedit_colorfromtokentype with the colour map of the host as a function
\* from token types to colours.
linedit_colorfromtokentype(colormap, type) ==
    IF type \in DOMAIN colormap THEN colormap[type] ELSE LINEDIT_DEFAULTCOLOR

\* The character loop of linedit_addcstringwithselection on a chunk of the
\* buffer buf, from its turn i: c is the byte index in buf it has advanced
\* to, code what restores the colour (empty with no colour).  The result is
\* the output and the index behind the last byte read.  The loop takes
\* `length` turns and advances one character in each; a continuation byte
\* is passed over without being copied; at the terminator of buf strncpy
\* appends a '\0'.
RECURSIVE chunkloop(_, _, _, _, _, _, _, _)
chunkloop(buf, length, lp, rp, code, i, c, out) ==
    IF i >= length THEN [out |-> out, last |-> c]
    ELSE LET out1 == out \o (IF i = lp THEN code_reverse ELSE <<>>)
                         \o (IF i = rp THEN code_default \o code ELSE <<>>)
             nbytes == linedit_utf8numberofbytes(ByteAt(buf, c))
         IN  IF c >= Len(buf) THEN [out |-> out1 \o <<0>>, last |-> c + 1]
             ELSE IF nbytes = 0
             THEN chunkloop(buf, length, lp, rp, code, i + 1, c + 1, out1)
             ELSE chunkloop(buf, length, lp, rp, code, i + 1, c + nbytes,
                            out1 \o SubSeq(buf, c + 1, Min(c + nbytes, Len(buf))))

\* linedit_addcstringwithselection(edit, in, offset, length, col, out) for
\* the chunk of buf that begins at byte index offset: lposn and rposn are
\* the character positions of the selection less the byte offset.
linedit_addcstringwithselection(e, buf, offset, length, code, out) ==
    LET sel == e.mode = "SELECTION" /\ ~(e.sposn < 0)
        lp == IF sel THEN selectionbounds(e)[1] - offset ELSE -1
        rp == IF sel THEN selectionbounds(e)[2] - offset ELSE -1
    IN  IF rp < 0 \/ lp > length
        THEN [out |-> out \o code \o SubSeq(buf, offset + 1, offset + length),
              last |-> offset + length]
        ELSE chunkloop(buf, length, lp, rp, code, 0, offset,
                       out \o code \o (IF lp < 0 THEN code_reverse ELSE <<>>))

\* One turn of the loop of linedit_syntaxcolorstring at byte index c of buf,
\* the tokenizer having answered tok = [success, start, length, type]:
\* the output, the new c, whether the function returned from the else
\* branch and the furthest index read.
syntaxcolorturn(e, colormap, buf, c, tok, out) ==
    IF tok.success /\ tok.length > 0 /\ tok.start >= c
    THEN LET pad == IF tok.start > c
                    THEN linedit_addcstringwithselection(
                             e, buf, c, tok.start - c,
                             linedit_stringsetcolor(LINEDIT_DEFAULTCOLOR), out)
                    ELSE [out |-> out, last |-> c]
             col == linedit_colorfromtokentype(colormap, tok.type)
             t   == linedit_addcstringwithselection(
                        e, buf, tok.start, tok.length, linedit_stringsetcolor(col), pad.out)
         IN  [out |-> t.out, c |-> tok.start + tok.length, returned |-> FALSE,
              overread |-> pad.last > tok.start \/ t.last > tok.start + tok.length]
    ELSE LET r == linedit_addcstringwithselection(
                      e, buf, c, Len(buf) - c,
                      linedit_stringsetcolor(LINEDIT_DEFAULTCOLOR), out)
         IN  [out |-> r.out, c |-> c, returned |-> TRUE, overread |-> r.last > Len(buf)]

\* The bytes beyond the terminator that the character loop of
\* linedit_addcstringwithselection can read: after the terminator it takes
\* one more turn for every further byte that the text has more than it has
\* characters, each reading up to four bytes on.
overreadsto(e) ==
    LET in    == e.current.bytes
        extra == Len(in) - linedit_stringlength(e.current)
    IN  IF extra >= 2 THEN Len(in) + 4 * (extra - 1) ELSE Len(in)

\* linedit_redraw reads beyond the allocation of the buffer.
redrawfaults(e) ==
    LET b == selectionbounds(e)
    IN  /\ ~(b[2] < 0 \/ b[1] > Len(e.current.bytes))
        /\ overreadsto(e) >= e.current.cap

\* linedit_graphemelength at byte index i of a string.
graphemelengthat(e, str, i) ==
    IF ByteAt(str, i) = 0 THEN 0
    ELSE IF e.graphemefn # "none" THEN GraphemeFn(str, i)
    ELSE linedit_utf8numberofbytes(ByteAt(str, i))

\* The loop of linedit_stringdisplaywidth from byte index i of str (a
\* grapheme of length 0 ends the walk here).
RECURSIVE displaywidthfrom(_, _, _, _)
displaywidthfrom(e, str, i, width) ==
    IF i >= Len(str) \/ graphemelengthat(e, str, i) = 0 THEN width
    ELSE displaywidthfrom(
             e, str, i + graphemelengthat(e, str, i),
             width + graphemedisplaywidthout(
                         e, SubSeq(str, i + 1, Min(i + graphemelengthat(e, str, i), Len(str))),
                         1).width)

\* linedit_stringdisplaywidth
linedit_stringdisplaywidth(e, str) == displaywidthfrom(e, str, 0, 0)

\* The first byte index from s on that holds a letter or the terminator.
RECURSIVE controlend(_, _)
controlend(str, s) ==
    IF ByteAt(str, s) = 0 \/ isalpha(ByteAt(str, s)) THEN s ELSE controlend(str, s + 1)

RECURSIVE renderfrom(_, _, _)

\* One turn of the loop of linedit_renderstring on the grapheme of length
\* bytes that starts with byte at byte index s.
rendergrapheme(e, str, s, byte, length) ==
    IF byte = 0 \/ length = 0 THEN e
    ELSE IF byte = 27 THEN renderfrom(e, str, controlend(str, s) + length)
    ELSE IF iscntrl(byte) THEN renderfrom(e, str, s + length)
    ELSE IF linedit_graphemedisplaywidth(e, str, s, length)
    THEN renderfrom(e, str, s + length)
    ELSE renderfrom(linedit_graphememeasurewidth(
                        e, SubSeq(str, s + 1, Min(s + length, Len(str)))),
                    str, s + length)

\* The loop of linedit_renderstring from byte index s: the editor with the
\* widths it has measured.  Carriage return, line feed and tab are control
\* characters and, like the other ones but the escape, move on to the next
\* grapheme.
renderfrom(e, str, s) ==
    rendergrapheme(e, str, s, ByteAt(str, s), graphemelengthat(e, str, s))

\* linedit_renderstring.  In a string of single-byte characters every
\* grapheme has length 1, for which linedit_graphemedisplaywidth answers
\* without the dictionary: the loop measures nothing.
linedit_renderstring(e, str) ==
    IF \A i \in 1..Len(str) : str[i] < 128 THEN e ELSE renderfrom(e, str, 0)

\* linedit_redraw without syntax colouring: what it does to the editor, which
\* is to measure the graphemes of yet unknown width.
linedit_redraw(e) ==
    LET text == linedit_plainstring(e, code_default)
        sugg == IF linedit_aresuggestionsavailable(e)
                THEN code_bold \o linedit_currentsuggestion(e)
                ELSE <<>>
    IN  linedit_renderstring(e, text \o sugg \o code_default)

\* linedit_init, then the calls with which the host installs its callbacks.
linedit_init(sc, posn, sposn) ==
    [mode |-> "DEFAULT", posn |-> posn, sposn |-> sposn,
     current |-> linedit_stringinit, clipboard |-> linedit_stringinit,
     history |-> <<>>, hposn |-> 0, suggestions |-> <<>>, sugposn |-> 0,
     completer |-> sc.completer, multiline |-> sc.multiline, graphemefn |-> sc.graphemefn,
     graphemedict |-> linedit_graphemeinit]

(* ---------------------------------------------------------------------- *)
(* Reading a key                                                            *)
(* ---------------------------------------------------------------------- *)

LINEDIT_CODESTRINGSIZE == 24

ESC_CODE == 27

\* The letter of a byte in 1..26 plus 'A'-1.
CtrlLetter ==
    <<"A", "B", "C", "D", "E", "F", "G", "H", "I", "J", "K", "L", "M",
      "N", "O", "P", "Q", "R", "S", "T", "U", "V", "W", "X", "Y", "Z">>

isdigit(byte) == byte >= 48 /\ byte <= 57

\* The loop that reads an escape sequence from the bytes in, n of them read
\* already: the number of bytes it reads, or -1 when the bytes run out before
\* the loop ends (read then waits).
RECURSIVE readseq(_, _)
readseq(in, n) ==
    IF n = LINEDIT_CODESTRINGSIZE THEN n
    ELSE IF n + 1 > Len(in) THEN -1
    ELSE IF isalpha(in[n + 1]) THEN n + 1
    ELSE readseq(in, n + 1)

\* strncmp(seq, text, 5)==0 for a text of five bytes, seq holding what
\* the loop has read.
seqis(seq, text) == Len(seq) >= 5 /\ SubSeq(seq, 1, 5) = text

\* The key an escape sequence is decoded as.
decodeseq(seq) ==
    IF seq[1] = 91
    THEN IF isdigit(seq[2])
         THEN IF seqis(seq, <<91, 49, 59, 50, 67>>) THEN <<"SHIFT_RIGHT">>
              ELSE IF seqis(seq, <<91, 49, 59, 50, 68>>) THEN <<"SHIFT_LEFT">>
              ELSE <<"UNKNOWN">>
         ELSE CASE seq[2] = 65 -> <<"UP">>
                [] seq[2] = 66 -> <<"DOWN">>
                [] seq[2] = 67 -> <<"RIGHT">>
                [] seq[2] = 68 -> <<"LEFT">>
                [] OTHER -> <<"UNKNOWN">>
    ELSE <<"UNKNOWN">>

\* case ESC_CODE of linedit_readkey, in being the bytes after the ESC and n
\* the number of them the loop reads.
readescape(in, n) ==
    IF n < 0 THEN [key |-> <<"UNKNOWN">>, rest |-> <<>>, starved |-> TRUE]
    ELSE [key |-> decodeseq(SubSeq(in, 1, n)), rest |-> SubSeq(in, n + 1, Len(in)),
          starved |-> FALSE]

\* The branch of linedit_readkey for a byte that is not a control byte:
\* nbytes is linedit_utf8numberofbytes of it.
readcharacter(in, nbytes) ==
    IF nbytes > Len(in) THEN [key |-> <<"UNKNOWN">>, rest |-> <<>>, starved |-> TRUE]
    ELSE [key |-> <<"CHARACTER", SubSeq(in, 1, nbytes)>>,
          rest |-> SubSeq(in, IF nbytes > 0 THEN nbytes + 1 ELSE 2, Len(in)),
          starved |-> FALSE]

\* The branches of linedit_readkey for a control byte other than ESC.
readcontrol(byte) ==
    CASE byte = 9   -> <<"TAB">>
      [] byte = 127 -> <<"DELETE">>
      [] byte = 13  -> <<"RETURN">>
      [] OTHER -> IF byte > 0 /\ byte < 27 THEN <<"CTRL", CtrlLetter[byte]>>
                  ELSE <<"UNKNOWN">>

\* linedit_readkey on the bytes in (not empty) that wait on stdin: the key,
\* the bytes left, and whether a read has to wait for more bytes.
linedit_readkey(in) ==
    IF iscntrl(in[1])
    THEN IF in[1] = ESC_CODE
         THEN readescape(Tail(in), readseq(Tail(in), 0))
         ELSE [key |-> readcontrol(in[1]), rest |-> Tail(in), starved |-> FALSE]
    ELSE readcharacter(in, linedit_utf8numberofbytes(in[1]))

(* ---------------------------------------------------------------------- *)
(* Raw mode.  The attributes of the terminal (a struct termios) are the     *)
(* set of the flags that are on, of those that linedit_enablerawmode        *)
(* turns off.                                                               *)
(* ---------------------------------------------------------------------- *)

\* The flags linedit_enablerawmode turns off.
RawFlags == {"IXON", "ICRNL", "BRKINT", "INPCK", "ISTRIP", "OPOST",
             "ECHO", "ICANON", "IEXTEN", "ISIG"}

\* The attributes of the terminal the host runs in.
OriginalAttributes == RawFlags

\* The terminal reads key by key and does not echo.
InRawMode(attrs) == "ICANON" \notin attrs /\ "ECHO" \notin attrs

\* The terminal before the first linedit() call; terminit is a global that
\* starts zeroed.
TerminalInit ==
    [attrs |-> OriginalAttributes, terminit |-> {}, exitregistered |-> FALSE,
     entry |-> "none"]

\* linedit_disablerawmode leaving the terminal as it is.
disablerawmode_keeps(t) == t

\* linedit_enablerawmode; got and set are whether tcgetattr and tcsetattr
\* succeed, which the code does not look at.  A tcgetattr that fails leaves
\* terminit as it was.
linedit_enablerawmode(t, got, set) ==
    [t EXCEPT !.exitregistered = TRUE,
              !.terminit = IF got THEN t.attrs ELSE @,
              !.attrs = IF set THEN (IF got THEN t.attrs ELSE t.terminit) \ RawFlags ELSE @,
              !.entry = IF got /\ set THEN "ok" ELSE "failed"]

\* linedit_disablerawmode
linedit_disablerawmode(t) == [t EXCEPT !.attrs = t.terminit]

(* ---------------------------------------------------------------------- *)
(* The rows of the terminal.  A row is counted from the row the cursor was *)
(* on when the session began; the lines are taken to be narrower than the  *)
(* terminal, and the screen to have room above and below.                  *)
(* ---------------------------------------------------------------------- *)

\* No string function has been called on its own.
NoCall ==
    [fn |-> "none", string |-> linedit_stringinit, posn |-> 0, text |-> <<>>, n |-> 0,
     result |-> linedit_stringinit, fault |-> FALSE]

\* The keys are given as such, not as bytes.
NoStdin == [ready |-> <<>>, later |-> <<>>]

\* A terminal whose rows are not followed.
Unwatched == [vpos |-> 0, nlines |-> 0, row |-> 0, promptrow |-> 0, watched |-> FALSE]

\* The start of linedit_supported: int vpos=0, nlines=0, and the cursor on
\* the row where the session begins.
ScreenInit == [Unwatched EXCEPT !.watched = TRUE]

\* The rows when a session begins on the terminal s.
sessionscreen(s) == IF s.watched THEN ScreenInit ELSE s

\* The loop of linedit_stringdisplaycoordinates from byte i, character n: y.
RECURSIVE displaycoordinatesfrom(_, _, _, _, _)
displaycoordinatesfrom(e, posn, i, n, y) ==
    IF i < Len(e.current.bytes) /\ n < posn
    THEN LET len   == linedit_graphemelength(e, i)
             count == linedit_utf8count(e.current.bytes, i, len)
             y1    == IF ByteAt(e.current.bytes, i) = 10 THEN y + 1 ELSE y
         IN  IF count < 0 THEN y
             ELSE IF len = 0 THEN y1
             ELSE displaycoordinatesfrom(e, posn, i + len, n + count, y1)
    ELSE y

\* linedit_stringdisplaycoordinates for the buffer: the line (yout) of posn.
linedit_stringdisplaycoordinates(e, posn) == displaycoordinatesfrom(e, posn, 0, 0, 0)

\* The rows the cursor goes down while linedit_renderstring writes str: one
\* for each line break.
renderedrows(str) == Cardinality({i \in 1..Len(str) : str[i] = 10})

\* The text linedit_redraw renders.
redrawoutput(e) ==
    linedit_plainstring(e, code_default)
        \o (IF linedit_aresuggestionsavailable(e)
            THEN code_bold \o linedit_currentsuggestion(e) ELSE <<>>)
        \o code_default

\* linedit_changeheight: the row it leaves the cursor on.
linedit_changeheight(row, oldheight, newheight, oldvpos, newvpos) ==
    IF oldheight = newheight THEN row + (newvpos - oldvpos)
    ELSE IF newheight > oldheight THEN row + (newheight - oldheight)
    ELSE row + (IF oldheight > oldvpos THEN oldheight - oldvpos ELSE 0)
             - (IF oldheight > newvpos THEN oldheight - newvpos ELSE 0)

\* The cursor movements of linedit_redraw from row: up ypos rows to write the
\* prompt, down with the text, up nlines-ypos rows.
redrawrows(s, row, ypos, nlines, rendered) ==
    [s EXCEPT !.promptrow = row - (IF ypos > 0 THEN ypos ELSE 0),
              !.row = row - (IF ypos > 0 THEN ypos ELSE 0) + rendered
                          - (IF nlines > ypos THEN nlines - ypos ELSE 0)]

\* linedit_redraw with the cursor on s.row.
redrawscreen(s, e) ==
    IF ~s.watched THEN s ELSE
    redrawrows(s, s.row, linedit_stringdisplaycoordinates(e, e.posn),
               linedit_stringcountlines(e.current), renderedrows(redrawoutput(e)))

\* The body of the loop of linedit_supported after linedit_processkeypress
\* has returned true with the editor e.
heightchanged(s, e, newvpos, newnlines) ==
    redrawscreen([s EXCEPT !.vpos = newvpos, !.nlines = newnlines,
                           !.row = linedit_changeheight(s.row, s.nlines, newnlines,
                                                        s.vpos, newvpos)], e)

burstscreen(s, e) ==
    IF ~s.watched THEN s ELSE
    heightchanged(s, e, linedit_stringcoordinates(e.current, e.posn)[2],
                  linedit_stringcountlines(e.current))

\* The state after linedit_init, on a terminal whose rows are s.
InitOn(s, in, c) ==
    /\ \E sc \in Scenarios, posn \in Indeterminate, sposn \in Indeterminate :
          /\ edit = linedit_init(sc, posn, sposn)
          /\ scenario = sc.name
    /\ pc = "idle"
    /\ more = FALSE
    /\ regen = TRUE
    /\ nsess = 0
    /\ lastkey = <<>>
    /\ ups = 0
    /\ hist0 = <<>>
    /\ snap = <<>>
    /\ returned = <<>>
    /\ typed = <<>>
    /\ seps = <<>>
    /\ downs = 0
    /\ term = TerminalInit
    /\ screen = s
    /\ stdin = in
    /\ call = c

Init == InitOn(Unwatched, NoStdin, NoCall)

\* linedit() on a supported terminal leaving the cursor where it is.
enter_keepsposition(e) ==
    linedit_redraw(linedit_setmode([e EXCEPT !.current = linedit_stringinit], "DEFAULT"))

\* linedit() on a supported terminal, up to the key loop of linedit_supported:
\* the buffer is cleared, then mode and position are set and the line is drawn.
linedit_enter(e) ==
    linedit_redraw(linedit_setposition(
        linedit_setmode([e EXCEPT !.current = linedit_stringinit], "DEFAULT"), 0))

\* The last step of linedit_supported: a buffer that is not empty is added
\* to the history.
leave_historyadd(e) ==
    IF Len(e.current.bytes) > 0 THEN linedit_historyadd(e, e.current.bytes) ELSE e

\* linedit_supported after the key loop: move to the end, drop the
\* suggestions, leave history mode, draw the line, add a non-empty buffer to
\* the history.
linedit_leave(e) ==
    leave_historyadd(linedit_redraw(linedit_setmode(
        [linedit_setposition(e, -1) EXCEPT !.suggestions = <<>>, !.sugposn = 0], "DEFAULT")))

\* What linedit_redraw is called with when a burst has ended: the editor
\* after linedit_processkeypress has regenerated the suggestions.
shown(r) == IF r.regen THEN linedit_generatesuggestions(r.e) ELSE r.e

\* linedit() on a supported terminal up to the key loop; got and set are
\* whether tcgetattr and tcsetattr succeed in linedit_enablerawmode.
SessionStarts(got, set) ==
    /\ pc = "idle"
    /\ nsess < Sessions(scenario)
    /\ term' = linedit_enablerawmode(term, got, set)
    /\ screen' = redrawscreen(sessionscreen(screen), linedit_enter(edit))
    /\ edit' = linedit_enter(edit)
    /\ pc' = "editing"
    /\ more' = FALSE
    /\ regen' = TRUE
    /\ nsess' = nsess + 1
    /\ lastkey' = <<>>
    /\ ups' = 0
    /\ hist0' = edit.history
    /\ snap' = <<>>
    /\ typed' = <<>>
    /\ seps' = <<>>
    /\ downs' = 0
    /\ UNCHANGED <<scenario, returned, stdin, call>>

\* linedit() on a terminal that works.
StartSession == SessionStarts(TRUE, TRUE)

\* linedit() on a terminal whose attributes cannot be read or cannot be set.
StartSessionFailing ==
    \E got \in BOOLEAN, set \in BOOLEAN : ~(got /\ set) /\ SessionStarts(got, set)

\* One turn of the do-while loop of linedit_processkeypress on `key`, r being
\* what the switch makes of it, with what follows it: avail is the answer of
\* linedit_keypressavailable (the burst goes on), and when the burst ends the
\* suggestions are regenerated and linedit_supported draws the line; when
\* the key ends the session, the rest of linedit_supported runs.  crash
\* chooses, for a key or a redraw that executes undefined behaviour, between
\* the fault ending the process and the run going on.
Handled(key, r, avail, crash) ==
    /\ \E e1 \in { IF crash THEN r.atfault
                   ELSE IF ~r.cont THEN linedit_leave(r.e)
                   ELSE IF ~avail THEN linedit_redraw(shown(r))
                   ELSE r.e } :
          /\ edit' = e1
          /\ snap' = IF e1.mode # "HISTORY" THEN <<>>
                     ELSE IF edit.mode # "HISTORY" THEN edit.current.bytes
                     ELSE snap
    /\ pc' = IF crash THEN "crashed" ELSE IF r.cont THEN "editing" ELSE "idle"
    /\ term' = IF ~crash /\ ~r.cont THEN linedit_disablerawmode(term) ELSE term
    /\ screen' = IF crash \/ avail THEN screen
                 ELSE IF ~r.cont THEN sessionscreen(screen)
                 ELSE burstscreen(screen, shown(r))
    /\ more' = avail
    /\ regen' = r.regen
    /\ lastkey' = key
    /\ ups' = IF key[1] # "UP" THEN 0
              ELSE IF edit.mode # "HISTORY" THEN 1
              ELSE IF ups > 0 THEN ups + 1
              ELSE 0
    /\ returned' = IF ~crash /\ ~r.cont /\ Len(r.e.current.bytes) > 0
                   THEN <<r.e.current.bytes>> \o returned
                   ELSE returned
    /\ \E tk \in { IF typed # OffScript /\ IsScriptPrefix(Append(typed, key))
                   THEN Append(typed, key) ELSE OffScript } :
          /\ typed' = tk
          /\ seps' = IF tk = OffScript THEN <<>> ELSE Append(seps, ~avail)
    /\ downs' = IF crash THEN downs
                 ELSE IF ~r.cont \/ (~avail /\ r.regen) THEN 0
                 ELSE IF key = <<"DOWN">> /\ edit.mode # "HISTORY"
                         /\ linedit_aresuggestionsavailable(edit) THEN downs + 1
                 ELSE downs
    /\ UNCHANGED <<scenario, nsess, hist0, call>>

\* One turn of the do-while loop of linedit_processkeypress on the key that
\* linedit_readkey has decoded; avails are the answers linedit_keypressavailable
\* can give after it.
Keypressed(key, avails) ==
    /\ pc = "editing"
    /\ \E r \in {processkey(edit, key, IF more THEN regen ELSE TRUE)} :
          \/ \E avail \in avails :
                Handled(key, r, avail, FALSE)
          \/ /\ r.fault
             /\ Handled(key, r, FALSE, TRUE)
          \/ /\ r.cont
             /\ redrawfaults(shown(r))
             /\ Handled(key, [r EXCEPT !.atfault = shown(r)], FALSE, TRUE)

\* The same for a key given as such, not as its bytes.
Keypress(key) == Keypressed(key, Bursts(scenario)) /\ UNCHANGED stdin

\* The number of characters in the buffer.
BufferChars == linedit_stringlength(edit.current)

KeyCharacter ==
    \E c \in Chars(scenario) :
        /\ BufferChars < TypeLimit(scenario)
        /\ Keypress(<<"CHARACTER", c>>)

KeyDelete == "DELETE" \in PlainKeys(scenario) /\ Keypress(<<"DELETE">>)

KeyLeft == "LEFT" \in PlainKeys(scenario) /\ Keypress(<<"LEFT">>)

KeyRight == "RIGHT" \in PlainKeys(scenario) /\ Keypress(<<"RIGHT">>)

KeyShiftLeft == "SHIFT_LEFT" \in PlainKeys(scenario) /\ Keypress(<<"SHIFT_LEFT">>)

KeyShiftRight == "SHIFT_RIGHT" \in PlainKeys(scenario) /\ Keypress(<<"SHIFT_RIGHT">>)

KeyUp ==
    /\ "UP" \in PlainKeys(scenario)
    /\ ups < MaxUps
    /\ Keypress(<<"UP">>)

KeyDown ==
    /\ "DOWN" \in PlainKeys(scenario)
    /\ (edit.mode # "HISTORY" /\ linedit_aresuggestionsavailable(edit)) => downs < MaxDowns
    /\ Keypress(<<"DOWN">>)

KeyReturn ==
    /\ "RETURN" \in PlainKeys(scenario)
    /\ linedit_shouldmultiline(edit) => BufferChars < MaxLen
    /\ Keypress(<<"RETURN">>)

KeyTab ==
    /\ "TAB" \in PlainKeys(scenario)
    /\ BufferChars <= MaxLen
    /\ Keypress(<<"TAB">>)

KeyCtrl ==
    \E letter \in CtrlLetters(scenario) :
        /\ letter = "V" => BufferChars + linedit_stringlength(edit.clipboard) <= MaxLen
        /\ Keypress(<<"CTRL", letter>>)

\* A key linedit_readkey reports as UNKNOWN (an unhandled escape sequence).
KeyUnknown == "UNKNOWN" \in PlainKeys(scenario) /\ Keypress(<<"UNKNOWN">>)

Next ==
    \/ StartSession
    \/ KeyCharacter
    \/ KeyDelete
    \/ KeyLeft
    \/ KeyRight
    \/ KeyShiftLeft
    \/ KeyShiftRight
    \/ KeyUp
    \/ KeyDown
    \/ KeyReturn
    \/ KeyTab
    \/ KeyCtrl
    \/ KeyUnknown

Spec == Init /\ [][Next]_vars

(* ---------------------------------------------------------------------- *)
(* The end of standard input                                               *)
(* ---------------------------------------------------------------------- *)

\* The bytes fgetc delivers in linedit_noterminal.
StdinBytes == {97, 10}

\* The lines fgets delivers in linedit_unsupported, without their newline.
StdinLines == {<<>>, <<97>>, <<97, 9>>}

\* The loop of linedit_unsupported that removes trailing control characters.
RECURSIVE stripcontrol(_)
stripcontrol(buffer) ==
    IF Len(buffer) > 0 /\ iscntrl(buffer[Len(buffer)])
    THEN stripcontrol(SubSeq(buffer, 1, Len(buffer) - 1))
    ELSE buffer

\* linedit_unsupported: got is what fgets answered, null for NULL and else
\* the bytes it stored.
linedit_unsupported(e, got) ==
    IF got.null THEN e
    ELSE [e EXCEPT !.current = linedit_stringaddcstring(@, stripcontrol(got.bytes))]

\* linedit() up to the call of the reader `to`, for a stdin or a terminal
\* that linedit_checksupport does not report as supported.
StartReader(to) ==
    /\ pc = "idle"
    /\ nsess < Sessions(scenario)
    /\ edit' = [edit EXCEPT !.current = linedit_stringinit]
    /\ pc' = to
    /\ more' = FALSE
    /\ regen' = TRUE
    /\ nsess' = nsess + 1
    /\ lastkey' = <<>>
    /\ ups' = 0
    /\ hist0' = edit.history
    /\ snap' = <<>>
    /\ typed' = <<>>
    /\ seps' = <<>>
    /\ downs' = 0
    /\ UNCHANGED <<scenario, returned, term, screen, stdin, call>>

StartNoterminal == StartReader("noterminal")

StartUnsupported == StartReader("unsupported")

\* linedit() returns the buffer e1 holds; to is "idle", or "ended" when
\* stdin is at its end.
ReaderReturns(e1, to) ==
    /\ edit' = e1
    /\ pc' = to
    /\ returned' = IF Len(e1.current.bytes) > 0
                   THEN <<e1.current.bytes>> \o returned
                   ELSE returned
    /\ UNCHANGED <<more, regen, scenario, nsess, lastkey, ups, hist0, snap,
                   typed, seps, downs, term, screen, stdin, call>>

\* One turn of the loop of linedit_noterminal: fgetc delivers a byte.
NoterminalRead ==
    /\ pc = "noterminal"
    /\ \E c \in StdinBytes :
          IF c = 10
          THEN ReaderReturns(edit, "idle")
          ELSE /\ Len(edit.current.bytes) < TypeLimit(scenario)
               /\ edit' = [edit EXCEPT !.current = linedit_stringappend(@, <<c>>)]
               /\ UNCHANGED <<pc, more, regen, scenario, nsess, lastkey, ups, hist0,
                              snap, returned, typed, seps, downs, term, screen, stdin, call>>

\* linedit_unsupported: fgets delivers a line with its newline.
UnsupportedRead ==
    /\ pc = "unsupported"
    /\ \E line \in StdinLines :
          ReaderReturns(linedit_unsupported(edit, [null |-> FALSE, bytes |-> line \o <<10>>]),
                        "idle")

\* Where each reader stands once stdin has reached its end.
AtEOF(p) ==
    CASE p = "editing"     -> "reading_eof"
      [] p = "noterminal"  -> "noterminal_eof"
      [] p = "unsupported" -> "unsupported_eof"

\* Stdin reaches its end while linedit() waits for input.
ReachEOF ==
    /\ pc \in {"editing", "noterminal", "unsupported"}
    /\ pc' = AtEOF(pc)
    /\ UNCHANGED <<edit, more, regen, scenario, nsess, lastkey, ups, hist0, snap,
                   returned, typed, seps, downs, term, screen, stdin, call>>

\* linedit_noterminal at the end of stdin: fgetc answers EOF.
NoterminalEOF ==
    /\ pc = "noterminal_eof"
    /\ ReaderReturns(edit, "ended")

\* linedit_unsupported at the end of stdin: fgets answers NULL when it read
\* nothing, and else delivers what it read, which ends without a newline.
UnsupportedEOF ==
    /\ pc = "unsupported_eof"
    /\ \E line \in StdinLines :
          ReaderReturns(linedit_unsupported(edit, [null |-> line = <<>>, bytes |-> line]),
                        "ended")

\* linedit_readkey at the end of stdin: read() answers 0, the key stays
\* LINEDIT_KEY_UNKNOWN and linedit_readkey returns true; the switch of
\* linedit_processkeypress does nothing for that key.
ReadAtEOF ==
    /\ pc = "reading_eof"
    /\ \E r \in {processkey(edit, <<"UNKNOWN">>, IF more THEN regen ELSE TRUE)} :
          /\ edit' = r.e
          /\ regen' = r.regen
          /\ pc' = IF r.cont THEN "polling_eof" ELSE "ended"
    /\ lastkey' = <<"UNKNOWN">>
    /\ ups' = 0
    /\ typed' = OffScript
    /\ seps' = <<>>
    /\ UNCHANGED <<more, scenario, nsess, hist0, snap, returned, downs, term, screen, stdin, call>>

\* linedit_keypressavailable at the end of stdin: select() reports a
\* descriptor at its end as readable, so the do-while loop of
\* linedit_processkeypress takes another turn.
PollAtEOF ==
    /\ pc = "polling_eof"
    /\ pc' = "reading_eof"
    /\ more' = TRUE
    /\ UNCHANGED <<edit, regen, scenario, nsess, lastkey, ups, hist0, snap,
                   returned, typed, seps, downs, term, screen, stdin, call>>

\* The host whose sessions are followed to the end of stdin.
InitEOF == Init /\ scenario = "history"

NextEOF ==
    \/ StartSession
    \/ StartNoterminal
    \/ StartUnsupported
    \/ KeyCharacter
    \/ KeyDelete
    \/ KeyUp
    \/ KeyDown
    \/ KeyReturn
    \/ KeyCtrl
    \/ NoterminalRead
    \/ UnsupportedRead
    \/ ReachEOF
    \/ ReadAtEOF
    \/ PollAtEOF
    \/ NoterminalEOF
    \/ UnsupportedEOF

\* What the program does by itself at the end of stdin.
StepAtEOF == ReadAtEOF \/ PollAtEOF \/ NoterminalEOF \/ UnsupportedEOF

\* The sessions with a stdin that can end; the program goes on running.
SpecEOF == InitEOF /\ [][NextEOF]_vars /\ WF_vars(StepAtEOF)

(* ---------------------------------------------------------------------- *)
(* A terminal whose attributes cannot be read or set                       *)
(* ---------------------------------------------------------------------- *)

\* The host whose sessions are followed on such a terminal.
InitTerm == Init /\ scenario = "history"

NextTerm ==
    \/ StartSession
    \/ StartSessionFailing
    \/ KeyCharacter
    \/ KeyDelete
    \/ KeyUp
    \/ KeyDown
    \/ KeyReturn
    \/ KeyCtrl

SpecTerm == InitTerm /\ [][NextTerm]_vars

(* ---------------------------------------------------------------------- *)
(* The rows of the terminal during a session with continuation lines       *)
(* ---------------------------------------------------------------------- *)

\* The largest distance between the row of the cursor and the row of its
\* line up to which the session is followed.
MaxDrift == 1

\* The host that continues a line while a brace is open, on a terminal whose
\* rows are followed.
InitScreen == InitOn(ScreenInit, NoStdin, NoCall) /\ scenario = "brace"

WithinDrift ==
    /\ screen.row - screen.vpos <= MaxDrift
    /\ screen.vpos - screen.row <= MaxDrift

NextScreen ==
    \/ StartSession
    \/ WithinDrift /\ KeyCharacter
    \/ WithinDrift /\ KeyDelete
    \/ WithinDrift /\ KeyLeft
    \/ WithinDrift /\ KeyRight
    \/ WithinDrift /\ KeyUp
    \/ WithinDrift /\ KeyDown
    \/ WithinDrift /\ KeyReturn
    \/ WithinDrift /\ KeyTab
    \/ WithinDrift /\ KeyCtrl

SpecScreen == InitScreen /\ [][NextScreen]_vars

(* ---------------------------------------------------------------------- *)
(* The keys as the bytes the terminal sends                                *)
(* ---------------------------------------------------------------------- *)

\* The most keys the user presses.
MaxKeys == 3

\* ESC and LINEDIT_CODESTRINGSIZE bytes, none of them a letter.
UnterminatedEscape == <<27, 91>> \o [i \in 1..(LINEDIT_CODESTRINGSIZE - 1) |-> 59]

\* What the terminal sends for the keys the user presses: a, the euro sign,
\* TAB, RETURN, DELETE, Ctrl-G, Ctrl-@, Ctrl-\, the arrows, Shift with the
\* right and left arrows, Ctrl with the right arrow, Delete forward, Escape,
\* Alt-a, and a sequence that overruns the buffer of linedit_readkey.
StdinKeys ==
    { ch_a, ch_euro, <<9>>, <<13>>, <<127>>, <<7>>, <<0>>, <<28>>,
      <<27, 91, 65>>, <<27, 91, 66>>, <<27, 91, 67>>, <<27, 91, 68>>,
      <<27, 91, 49, 59, 50, 67>>, <<27, 91, 49, 59, 50, 68>>,
      <<27, 91, 49, 59, 53, 67>>, <<27, 91, 51, 126>>, <<27>>, <<27, 97>>,
      UnterminatedEscape }

\* The bytes of the first n of the keys.
RECURSIVE bytesof(_, _)
bytesof(keys, n) == IF n = 0 THEN <<>> ELSE bytesof(keys, n - 1) \o keys[n]

\* The host with the completer "prompt"; the user presses up to MaxKeys keys.
InitReadkey ==
    /\ \E n \in 0..MaxKeys : \E keys \in [1..n -> StdinKeys] :
          InitOn(Unwatched, [ready |-> <<>>, later |-> keys], NoCall)
    /\ scenario = "again"
    /\ edit.posn = 0
    /\ edit.sposn = -1

\* The user presses the next key or keys while linedit waits in read().
KeysArrive ==
    /\ pc = "editing"
    /\ stdin.later # <<>>
    /\ IF stdin.ready = <<>> THEN TRUE ELSE linedit_readkey(stdin.ready).starved
    /\ \E n \in 1..Len(stdin.later) :
          stdin' = [ready |-> stdin.ready \o bytesof(stdin.later, n),
                    later |-> SubSeq(stdin.later, n + 1, Len(stdin.later))]
    /\ UNCHANGED <<edit, pc, more, regen, scenario, nsess, lastkey, ups, hist0, snap,
                   returned, typed, seps, downs, term, screen, call>>

\* One turn of the do-while loop of linedit_processkeypress: linedit_readkey
\* decodes a key from the bytes that wait, the switch handles it, and
\* linedit_keypressavailable tells whether more bytes wait.  The tcsetattr
\* of linedit_disablerawmode (TCSAFLUSH) drops the bytes not yet read.
ReadKey ==
    /\ stdin.ready # <<>>
    /\ \E k \in {linedit_readkey(stdin.ready)} :
          /\ ~k.starved
          /\ Keypressed(k.key, {k.rest # <<>>})
          /\ stdin' = [stdin EXCEPT !.ready = IF pc' = "idle" THEN <<>> ELSE k.rest]

NextReadkey ==
    \/ StartSession
    \/ KeysArrive
    \/ ReadKey

SpecReadkey == InitReadkey /\ [][NextReadkey]_vars

(* ---------------------------------------------------------------------- *)
(* cli() on a standard input that is no terminal                           *)
(* ---------------------------------------------------------------------- *)

\* The most bytes standard input delivers before its end.
MaxStream == 4

\* The streams standard input delivers: lines of the letter a, the last one
\* with or without its newline.
RECURSIVE Streams(_)
Streams(n) ==
    IF n = 0 THEN {<<>>}
    ELSE Streams(n - 1) \cup { Append(st, b) : st \in Streams(n - 1), b \in StdinBytes }

\* cli() at the top of its read-evaluate-print loop with n = 0 (pc "idle"),
\* tty being false; stdin.later are the bytes fgetc has yet to deliver.
InitCli ==
    /\ \E st \in Streams(MaxStream) :
          InitOn(Unwatched, [ready |-> <<>>, later |-> st], NoCall)
    /\ scenario = "plain"

\* while (!input) input=linedit(&edit): linedit clears the buffer and, with
\* LINEDIT_NOTTTY, calls linedit_noterminal, which clears it again.
CliLinedit ==
    /\ pc = "idle"
    /\ edit' = [edit EXCEPT !.current = linedit_stringinit]
    /\ pc' = "cli_noterminal"
    /\ UNCHANGED <<more, regen, scenario, nsess, lastkey, ups, hist0, snap, returned,
                   typed, seps, downs, term, screen, stdin, call>>

\* One turn of the loop of linedit_noterminal: fgetc answers EOF at the end
\* of the stream, and else its next byte.  On EOF and on a newline
\* linedit_noterminal returns, linedit returns linedit_cstring of the buffer,
\* and the while loop of cli() ends when that is not NULL.
CliFgetc ==
    /\ pc = "cli_noterminal"
    /\ IF stdin.later = <<>> \/ Head(stdin.later) = 10
       THEN /\ pc' = IF linedit_cstring(edit.current).null THEN "idle" ELSE "cli_round"
            /\ returned' = IF linedit_cstring(edit.current).null THEN returned
                           ELSE <<edit.current.bytes>> \o returned
            /\ edit' = edit
       ELSE /\ edit' = [edit EXCEPT !.current = linedit_stringappend(@, <<Head(stdin.later)>>)]
            /\ UNCHANGED <<pc, returned>>
    /\ stdin' = [stdin EXCEPT !.later = IF @ = <<>> THEN @ ELSE Tail(@)]
    /\ UNCHANGED <<more, regen, scenario, nsess, lastkey, ups, hist0, snap,
                   typed, seps, downs, term, screen, call>>

\* The rest of the body of the loop of cli() with an input: quit breaks; help
\* continues, and compiling and running reach the end of the body, both to
\* n = 1, where !tty && n>0 breaks.
CliRound ==
    /\ pc = "cli_round"
    /\ pc' = "cli_done"
    /\ UNCHANGED <<edit, more, regen, scenario, nsess, lastkey, ups, hist0, snap, returned,
                   typed, seps, downs, term, screen, stdin, call>>

NextCli ==
    \/ CliLinedit
    \/ CliFgetc
    \/ CliRound

\* cli() with a standard input that is no terminal; the program goes on
\* running.
SpecCli == InitCli /\ [][NextCli]_vars /\ WF_vars(NextCli)

(* ---------------------------------------------------------------------- *)
(* The string functions called on their own                                *)
(* ---------------------------------------------------------------------- *)

\* The most characters of a string the calls begin with.
MaxChars == 3

\* The most bytes a string is grown to.
MaxStringBytes == 9

\* The characters of the strings: of one, two and three bytes.
StringChars == {ch_a, ch_acute, ch_euro}

\* The byte strings inserted.
StringTexts == {ch_a, ch_euro, ch_a \o ch_a}

\* The strings the calls begin with: the unallocated string, and the strings
\* of up to MaxChars characters as linedit_stringappend builds them.
StringInputs ==
    {linedit_stringinit} \cup
    UNION { { linedit_stringappend(linedit_stringinit, bytesof(chars, n)) :
                chars \in [1..n -> StringChars] } : n \in 0..MaxChars }

InitString ==
    /\ \E s \in StringInputs : InitOn(Unwatched, NoStdin, [NoCall EXCEPT !.result = s])
    /\ scenario = "plain"
    /\ edit.posn = 0
    /\ edit.sposn = -1

\* linedit_stringinsert(&string, posn, text, n) on the string the last call
\* left.
StringInsert ==
    \E posn \in 0..(linedit_stringlength(call.result) + 2), text \in StringTexts :
        /\ Len(call.result.bytes) + Len(text) <= MaxStringBytes
        /\ call' = [fn |-> "insert", string |-> call.result, posn |-> posn, text |-> text,
                    n |-> Len(text),
                    result |-> linedit_stringinsert(call.result, posn, text),
                    fault |-> stringinsertoverflows(call.result, posn, text)]
        /\ UNCHANGED <<edit, pc, more, regen, scenario, nsess, lastkey, ups, hist0, snap,
                       returned, typed, seps, downs, term, screen, stdin>>

\* linedit_stringdelete(&string, posn, n) on the string the last call left.
StringDelete ==
    \E posn \in 0..(linedit_stringlength(call.result) + 1),
       n \in 0..(linedit_stringlength(call.result) + 1) :
        /\ call' = [fn |-> "delete", string |-> call.result, posn |-> posn, text |-> <<>>,
                    n |-> n,
                    result |-> linedit_stringdelete(call.result, posn, n),
                    fault |-> FALSE]
        /\ UNCHANGED <<edit, pc, more, regen, scenario, nsess, lastkey, ups, hist0, snap,
                       returned, typed, seps, downs, term, screen, stdin>>

\* linedit_stringinsert(&string, posn, text, n) followed by
\* linedit_stringdelete(&string, posn, m), m being the characters of text.
StringInsertDelete ==
    \E posn \in 0..(linedit_stringlength(call.result) + 1), text \in StringTexts :
        /\ Len(call.result.bytes) + Len(text) <= MaxStringBytes
        /\ call' = [fn |-> "insertdelete", string |-> call.result, posn |-> posn,
                    text |-> text, n |-> linedit_utf8count(text, 0, Len(text)),
                    result |-> linedit_stringdelete(
                                   linedit_stringinsert(call.result, posn, text), posn,
                                   linedit_utf8count(text, 0, Len(text))),
                    fault |-> stringinsertoverflows(call.result, posn, text)]
        /\ UNCHANGED <<edit, pc, more, regen, scenario, nsess, lastkey, ups, hist0, snap,
                       returned, typed, seps, downs, term, screen, stdin>>

NextString ==
    \/ StringInsert
    \/ StringDelete
    \/ StringInsertDelete

SpecString == InitString /\ [][NextString]_vars

(* ---------------------------------------------------------------------- *)
(* Building the displayed string, with a tokenizer of the host             *)
(* ---------------------------------------------------------------------- *)

\* The buffers displayed: of characters of one and of three bytes.
ColorTexts ==
    { <<>>, ch_a, ch_euro, ch_a \o ch_a, ch_a \o ch_euro, ch_euro \o ch_a,
      ch_euro \o ch_euro, ch_euro \o ch_a \o ch_a }

\* The most characters of these buffers: posn and sposn are within them.
MaxColorChars == 3

\* The colour map of the host: tokens of type 0 are red.
ColorMap == [type \in {0} |-> LINEDIT_RED]

\* What the tokenizer can answer for a buffer of n bytes: false, or a token
\* that lies inside the buffer, of any length from 0 on and with any start,
\* before the scan position too.
TokenizerAnswers(n) ==
    { [success |-> FALSE, start |-> 0, length |-> 0, type |-> 0] } \cup
    { [success |-> TRUE, start |-> st, length |-> l, type |-> 0] :
        st \in 0..n, l \in 0..n }

\* No string has been built yet for the buffer and the selection chosen.
NoColorCall(text, mode, posn, sposn) ==
    [fn |-> "none", string |-> linedit_stringappend(linedit_stringinit, text),
     mode |-> mode, posn |-> posn, sposn |-> sposn,
     c |-> 0, iter |-> 0, calls |-> 0, out |-> <<>>, done |-> FALSE,
     covered |-> {}, overread |-> FALSE, lexwarning |-> FALSE]

InitColor ==
    /\ \E text \in ColorTexts, mode \in {"DEFAULT", "SELECTION"},
          posn \in 0..MaxColorChars, sposn \in -1..MaxColorChars :
          /\ mode = "DEFAULT" => (sposn = -1 /\ posn = 0)
          /\ InitOn(Unwatched, NoStdin, NoColorCall(text, mode, posn, sposn))
    /\ scenario = "plain"
    /\ edit.posn = 0
    /\ edit.sposn = -1

\* The editor as the call has it: mode, posn and sposn.
ColorEditor == [edit EXCEPT !.mode = call.mode, !.posn = call.posn, !.sposn = call.sposn]

\* linedit_plainstring(edit, &in, &out)
PlainString ==
    /\ call.fn = "none"
    /\ call' = [call EXCEPT
                   !.fn = "plainstring",
                   !.out = linedit_plainstring(
                               [ColorEditor EXCEPT !.current = call.string], <<>>),
                   !.overread = linedit_addcstringwithselection(
                                    ColorEditor, call.string.bytes, 0,
                                    Len(call.string.bytes), <<>>, <<>>).last
                                > Len(call.string.bytes),
                   !.done = TRUE]
    /\ UNCHANGED <<edit, pc, more, regen, scenario, nsess, lastkey, ups, hist0, snap,
                   returned, typed, seps, downs, term, screen, stdin>>

\* linedit_syntaxcolorstring(edit, &in, &out) up to the first test of its
\* loop.
SyntaxColorString ==
    /\ call.fn = "none"
    /\ call' = [call EXCEPT !.fn = "syntaxcolorstring",
                            !.done = (call.string.bytes = <<>>)]
    /\ UNCHANGED <<edit, pc, more, regen, scenario, nsess, lastkey, ups, hist0, snap,
                   returned, typed, seps, downs, term, screen, stdin>>

\* One turn of the loop of linedit_syntaxcolorstring: the call of the
\* tokenizer, what is added to the output for its answer, the count of the
\* turns and the test of the loop.
TokenizerCall ==
    /\ call.fn = "syntaxcolorstring"
    /\ ~call.done
    /\ \E tok \in TokenizerAnswers(Len(call.string.bytes)) :
          /\ tok.start + tok.length <= Len(call.string.bytes)
          /\ LET buf == call.string.bytes
                 t   == syntaxcolorturn(ColorEditor, ColorMap, buf, call.c, tok, call.out)
             IN  call' = [call EXCEPT
                            !.calls = @ + 1,
                            !.out = t.out,
                            !.c = t.c,
                            !.iter = IF t.returned THEN @ ELSE @ + 1,
                            !.covered = IF t.returned THEN @
                                        ELSE @ \cup (tok.start..(tok.start + tok.length - 1)),
                            !.overread = @ \/ t.overread,
                            !.lexwarning = ~t.returned /\ call.iter + 1 > Len(buf),
                            !.done = \/ t.returned
                                     \/ call.iter + 1 > Len(buf)
                                     \/ ByteAt(buf, t.c) = 0]
    /\ UNCHANGED <<edit, pc, more, regen, scenario, nsess, lastkey, ups, hist0, snap,
                   returned, typed, seps, downs, term, screen, stdin>>

NextColor ==
    \/ PlainString
    \/ SyntaxColorString
    \/ TokenizerCall

SpecColor == InitColor /\ [][NextColor]_vars /\ WF_vars(NextColor)

(* ---------------------------------------------------------------------- *)
(* Positions and coordinates                                               *)
(* ---------------------------------------------------------------------- *)

\* The most characters of the buffers whose positions are mapped.
MaxLineChars == 4

\* Their characters: of one and of three bytes, and the line break.
LineChars == {ch_a, ch_euro, ch_newline}

\* The buffers: of up to MaxLineChars characters, as linedit_stringappend
\* builds them.
LineInputs ==
    UNION { { linedit_stringappend(linedit_stringinit, bytesof(chars, n)) :
                chars \in [1..n -> LineChars] } : n \in 0..MaxLineChars }

InitCoordinates ==
    /\ \E s \in LineInputs :
          InitOn(Unwatched, NoStdin, [NoCall EXCEPT !.string = s, !.result = s])
    /\ scenario = "plain"
    /\ edit.posn = 0
    /\ edit.sposn = -1

\* linedit_stringcoordinates(&string, posn, &x, &y) followed by
\* linedit_stringfindposition(&string, x, y, &n): text holds <<x, y>>.
StringCoordinates ==
    \E posn \in 0..linedit_stringlength(call.string) :
        /\ call' = [call EXCEPT
                       !.fn = "coordinates",
                       !.posn = posn,
                       !.text = linedit_stringcoordinates(call.string, posn),
                       !.n = linedit_stringfindposition(
                                 call.string,
                                 linedit_stringcoordinates(call.string, posn)[1],
                                 linedit_stringcoordinates(call.string, posn)[2])]
        /\ UNCHANGED <<edit, pc, more, regen, scenario, nsess, lastkey, ups, hist0, snap,
                       returned, typed, seps, downs, term, screen, stdin>>

NextCoordinates == StringCoordinates

SpecCoordinates == InitCoordinates /\ [][NextCoordinates]_vars

(* ---------------------------------------------------------------------- *)
(* The grapheme width dictionary used on its own                           *)
(* ---------------------------------------------------------------------- *)

\* The most entries the dictionary is filled with.
MaxEntries == 7

\* The graphemes the dictionary holds at the beginning, in the order of
\* their insertion, and the ones inserted later, as their bytes: strings of
\* the letters a and b, some of them the beginning of others.
DictFillers == << <<97, 98, 97>>, <<97, 97>>, <<98, 98, 97>>, <<98, 97>> >>

DictGraphemes == { <<98, 98>>, <<98, 98, 98>>, <<97, 97, 97>> }

\* The widths inserted with them.
DictWidths == {1, 2}

\* The dictionary after linedit_graphemeinsert of the first k of DictFillers
\* with width 1.
RECURSIVE DictFilled(_)
DictFilled(k) ==
    IF k = 0 THEN linedit_graphemeinit
    ELSE linedit_graphemeinsert(DictFilled(k - 1), DictFillers[k], 1)

\* No call made yet on the dictionary dict, which holds the first k of
\* DictFillers: stored are the pairs of a grapheme and the width for which
\* linedit_graphemeinsert has made an entry, inserted the graphemes it has
\* been called with.
NoDictCall(k) ==
    [fn |-> "none", grapheme |-> <<>>, width |-> 0, found |-> FALSE,
     dict |-> DictFilled(k),
     stored |-> { <<DictFillers[i], 1>> : i \in 1..k },
     inserted |-> { DictFillers[i] : i \in 1..k }]

InitDictionary ==
    /\ \E k \in 0..Len(DictFillers) : InitOn(Unwatched, NoStdin, NoDictCall(k))
    /\ scenario = "plain"
    /\ edit.posn = 0
    /\ edit.sposn = -1

\* linedit_graphemeinsert(&dict, grapheme, length, width); it makes an entry
\* when linedit_graphemefind, after the resize, answers false with a slot.
GraphemeInsert ==
    \E g \in DictGraphemes, w \in DictWidths :
        /\ call.dict.count < MaxEntries
        /\ call' = [fn |-> "graphemeinsert", grapheme |-> g, width |-> w,
                    found |-> linedit_graphemefind(graphemegrown(call.dict), g).found,
                    dict |-> linedit_graphemeinsert(call.dict, g, w),
                    stored |-> IF linedit_graphemefind(graphemegrown(call.dict), g).found
                               THEN call.stored ELSE call.stored \cup {<<g, w>>},
                    inserted |-> call.inserted \cup {g}]
        /\ UNCHANGED <<edit, pc, more, regen, scenario, nsess, lastkey, ups, hist0, snap,
                       returned, typed, seps, downs, term, screen, stdin>>

\* linedit_graphemelookup(&dict, grapheme, length, &width)
GraphemeLookup ==
    \E g \in DictGraphemes \cup { DictFillers[i] : i \in 1..Len(DictFillers) } :
        /\ call' = [call EXCEPT
                       !.fn = "graphemelookup",
                       !.grapheme = g,
                       !.width = linedit_graphemelookup(call.dict, g).width,
                       !.found = linedit_graphemelookup(call.dict, g).found]
        /\ UNCHANGED <<edit, pc, more, regen, scenario, nsess, lastkey, ups, hist0, snap,
                       returned, typed, seps, downs, term, screen, stdin>>

\* The graphemes of one byte whose width is asked for: a letter, the tab and
\* the delete character.
SingleBytes == { <<97>>, <<9>>, <<127>> }

\* The strings whose display width is asked for, with control characters.
DisplayStrings == { <<97>>, <<9>>, <<97, 9, 97>>, <<97, 27, 127>> }

\* linedit_graphemedisplaywidth(edit, grapheme, length, &w) with w = 1, as
\* its callers have it, the dictionary of edit being dict.
GraphemeDisplayWidth ==
    \E g \in SingleBytes \cup DictGraphemes :
        /\ call' = [call EXCEPT
                       !.fn = "graphemedisplaywidth",
                       !.grapheme = g,
                       !.width = graphemedisplaywidthout(
                                     [edit EXCEPT !.graphemedict = call.dict], g, 1).width,
                       !.found = graphemedisplaywidthout(
                                     [edit EXCEPT !.graphemedict = call.dict], g, 1).known]
        /\ UNCHANGED <<edit, pc, more, regen, scenario, nsess, lastkey, ups, hist0, snap,
                       returned, typed, seps, downs, term, screen, stdin>>

\* linedit_stringdisplaywidth(edit, &string)
StringDisplayWidth ==
    \E str \in DisplayStrings :
        /\ call' = [call EXCEPT
                       !.fn = "stringdisplaywidth",
                       !.grapheme = str,
                       !.width = linedit_stringdisplaywidth(
                                     [edit EXCEPT !.graphemedict = call.dict], str),
                       !.found = TRUE]
        /\ UNCHANGED <<edit, pc, more, regen, scenario, nsess, lastkey, ups, hist0, snap,
                       returned, typed, seps, downs, term, screen, stdin>>

NextDictionary ==
    \/ GraphemeInsert
    \/ GraphemeLookup
    \/ GraphemeDisplayWidth
    \/ StringDisplayWidth

SpecDictionary == InitDictionary /\ [][NextDictionary]_vars

(* ---------------------------------------------------------------------- *)
(* Properties                                                              *)
(* ---------------------------------------------------------------------- *)

\* The code points of a well-formed UTF-8 byte sequence, each as its bytes.
RECURSIVE CodePointsFrom(_, _)
CodePointsFrom(bytes, i) ==
    IF i > Len(bytes) THEN <<>>
    ELSE LET n == IF bytes[i] < 128 THEN 1
                  ELSE IF bytes[i] < 224 THEN 2
                  ELSE IF bytes[i] < 240 THEN 3
                  ELSE 4
         IN  <<SubSeq(bytes, i, i + n - 1)>> \o CodePointsFrom(bytes, i + n)

CodePoints(bytes) == CodePointsFrom(bytes, 1)

\* char_count(buffer): the number of code points of the buffer.
CharCount == Len(CodePoints(edit.current.bytes))

\* TRUE after a keypress of a session that is still being edited.
AfterKeypress == pc = "editing" /\ lastkey # <<>>

\* C1: during a session on a supported terminal, at its start and after every
\* keypress, the cursor lies within the buffer: 0 <= posn <= char_count(buffer).
C1_PosnWithinBuffer ==
    pc = "editing" => 0 <= edit.posn /\ edit.posn <= CharCount

\* C1 witness: a RIGHT keypress at the end of a three-character buffer with a
\* multi-byte character has left the cursor at the end.
C1_Witness ==
    /\ AfterKeypress
    /\ lastkey = <<"RIGHT">>
    /\ CharCount = 3
    /\ edit.posn = 3
    /\ Len(edit.current.bytes) > 3

\* C2: at every moment from linedit_init on, between sessions and after every
\* keypress, mode is SELECTION exactly when sposn is not -1.
C2_SelectionIffAnchor ==
    pc # "crashed" => ((edit.mode = "SELECTION") <=> (edit.sposn # -1))

\* C3: whenever a session has returned, the history is the list of the
\* non-empty buffers returned so far, newest first (so an aborted or empty
\* session added nothing and no snapshot is left in it).
C3_HistoryIsReturned ==
    pc = "idle" => edit.history = returned

\* C3 witness: three sessions have returned, two of them with a buffer and the
\* last one aborted with Ctrl-G, and the newest entry was recalled with UP.
C3_Witness ==
    /\ pc = "idle"
    /\ nsess = 3
    /\ Len(returned) = 2
    /\ returned[1] = returned[2]
    /\ lastkey = <<"CTRL", "G">>

\* C4: during a session, in history mode the history is the snapshot of the
\* buffer taken when UP entered history mode followed by the history of the
\* session's start; in any other mode it is the history of the session's start.
C4_HistoryDuringSession ==
    pc = "editing" =>
        edit.history = IF edit.mode = "HISTORY" THEN <<snap>> \o hist0 ELSE hist0

\* C4 witness: history mode was entered from a typed buffer with two past
\* entries, and the oldest entry is shown.
C4_Witness ==
    /\ pc = "editing"
    /\ edit.mode = "HISTORY"
    /\ Len(hist0) = 2
    /\ snap # <<>>
    /\ edit.hposn = 2

\* C5: after k >= 1 consecutive UP keypresses that started outside history
\* mode, with N past entries, the history index is min(k, N), the buffer is the
\* min(k, N)-th newest entry (the snapshot of what was typed when N = 0) and
\* the cursor is at the end of the buffer.
C5_ConsecutiveUps ==
    (pc = "editing" /\ ups >= 1) =>
        LET m == Min(ups, Len(hist0))
        IN  /\ edit.mode = "HISTORY"
            /\ edit.hposn = m
            /\ edit.current.bytes = IF m = 0 THEN snap ELSE hist0[m]
            /\ edit.posn = CharCount

\* C5 witness: three UP keypresses with two different past entries, which stop
\* at the oldest one.
C5_Witness ==
    /\ pc = "editing"
    /\ ups = 3
    /\ Len(hist0) = 2
    /\ hist0[1] # hist0[2]
    /\ edit.hposn = 2

\* C5 witness for an empty history: UP after typing shows what was typed.
C5_WitnessEmpty ==
    /\ pc = "editing"
    /\ ups = 2
    /\ hist0 = <<>>
    /\ snap # <<>>

\* C6: a DOWN keypress in history mode moves to the entry one step newer:
\* the history index does not grow, goes down by one while it is positive,
\* and rests at 0, the snapshot of the typed buffer.
C6_DownGoesNewer ==
    [][(pc = "editing" /\ edit.mode = "HISTORY" /\ lastkey' = <<"DOWN">> /\ pc' = "editing")
          => /\ edit'.hposn <= edit.hposn
             /\ edit'.hposn = (IF edit.hposn > 0 THEN edit.hposn - 1 ELSE 0)]_vars

\* TRUE when new is old with exactly one '\n' put in somewhere.
GainsNewline(old, new) ==
    /\ Len(new) = Len(old) + 1
    /\ \E i \in 1..Len(new) :
          /\ new[i] = 10
          /\ SubSeq(new, 1, i - 1) \o SubSeq(new, i + 1, Len(new)) = old

\* C7: a RETURN keypress ends the session exactly when no multi-line
\* predicate is installed or the predicate is false on the current buffer;
\* otherwise the session goes on and the buffer gains exactly one '\n'.
C7_ReturnEndsIffNotMultiline ==
    [][(pc = "editing" /\ lastkey' = <<"RETURN">> /\ pc' # "crashed")
          => /\ (pc' = "idle") <=>
                   (edit.multiline = "none" \/ ~Multiline(edit.multiline, edit.current.bytes))
             /\ pc' = "editing" => GainsNewline(edit.current.bytes, edit'.current.bytes)]_vars

\* seq with x put in before its element number i + 1.
InsertAt(seq, i, x) == SubSeq(seq, 1, i) \o <<x>> \o SubSeq(seq, i + 1, Len(seq))

\* What C8 says of a TAB keypress between the editor states e and f.
TabEffect(e, f) ==
    /\ f.mode = "DEFAULT"
    /\ IF e.suggestions # <<>>
       THEN /\ f.current.bytes = e.current.bytes \o e.suggestions[e.sugposn + 1]
            /\ f.posn = Len(CodePoints(f.current.bytes))
       ELSE /\ CodePoints(f.current.bytes) = InsertAt(CodePoints(e.current.bytes), e.posn, ch_tab)
            /\ f.posn = e.posn + 1

\* C8: a TAB keypress leaves mode DEFAULT; with suggestions it appends the
\* selected suggestion to the buffer and puts the cursor at the end, without
\* suggestions it inserts one tab character at the cursor and moves the
\* cursor one character on.
C8_TabAlways ==
    [][(pc = "editing" /\ lastkey' = <<"TAB">>)
          => (pc' = "editing" /\ TabEffect(edit, edit'))]_vars

\* C8 for the TAB keypresses that complete (the insertion stays within the
\* allocation): the same effect.
C8_Tab ==
    [][(pc = "editing" /\ lastkey' = <<"TAB">> /\ pc' = "editing")
          => /\ edit'.mode = "DEFAULT"
             /\ IF edit.suggestions # <<>>
                THEN /\ edit'.current.bytes =
                            edit.current.bytes \o edit.suggestions[edit.sugposn + 1]
                     /\ edit'.posn = Len(CodePoints(edit'.current.bytes))
                ELSE /\ CodePoints(edit'.current.bytes) =
                            InsertAt(CodePoints(edit.current.bytes), edit.posn, ch_tab)
                     /\ edit'.posn = edit.posn + 1]_vars

\* C8 witness: TAB has committed a suggestion that DOWN had cycled to.
C8_Witness ==
    /\ AfterKeypress
    /\ lastkey = <<"TAB">>
    /\ scenario = "terminated"
    /\ edit.current.bytes = ch_a \o ch_a
    /\ edit.posn = 2
    /\ edit.mode = "DEFAULT"

\* C8 witness for the literal tab: TAB without suggestions has put a tab
\* between two characters, behind a multi-byte one.
C8_WitnessLiteral ==
    /\ AfterKeypress
    /\ lastkey = <<"TAB">>
    /\ edit.current.bytes = ch_acute \o ch_tab \o ch_a
    /\ edit.posn = 2

\* C9, as stated: the keys h, e, TAB, RETURN typed into an empty buffer with
\* the completer are accepted with buffer "hello" however they are grouped
\* into bursts.
C9_HelloAnyGrouping ==
    (pc = "idle" /\ typed = ScriptHello) =>
        (returned # <<>> /\ returned[1] = str_hello)

\* C9, amended: the keys h, e, TAB, RETURN typed into an empty buffer with the
\* completer are accepted with buffer "hello" exactly when the burst that
\* holds e has ended before TAB is read.
C9_HelloWhenBurstEndsBeforeTab ==
    (pc = "idle" /\ typed = ScriptHello) =>
        /\ returned # <<>>
        /\ (returned[1] = str_hello) <=> seps[2]

\* C9 witness: the four keys were typed with h and e in one burst and were
\* accepted as "hello".
C9_Witness ==
    /\ pc = "idle"
    /\ typed = ScriptHello
    /\ ~seps[1]
    /\ seps[2]
    /\ returned = <<str_hello>>

\* C10: after every burst that did not cycle the suggestions with DOWN, the
\* suggestions are empty when no completer is installed or the cursor is not
\* at the end of the buffer, and are otherwise what the completer pushes for
\* the current buffer, with the suggestion cursor at 0.
C10_SuggestionsAfterBurst ==
    (AfterKeypress /\ ~more /\ regen) =>
        IF edit.completer = "none" \/ edit.posn # CharCount
        THEN edit.suggestions = <<>>
        ELSE /\ edit.suggestions = Completer(edit.completer, edit.current.bytes)
             /\ edit.sugposn = 0

\* C11: outside history mode a DOWN keypress with n >= 1 suggestions leaves
\* the list as it is and the suggestion cursor at k mod n, k being the number
\* of such keypresses since the list was generated (so DOWN on the last
\* suggestion goes back to the first).
C11_DownCyclesSuggestions ==
    [][(pc = "editing" /\ edit.mode # "HISTORY" /\ edit.suggestions # <<>>
            /\ lastkey' = <<"DOWN">> /\ pc' = "editing")
          => /\ edit'.suggestions = edit.suggestions
             /\ downs' = downs + 1
             /\ edit'.sugposn = downs' % Len(edit.suggestions)]_vars

\* C11 witness: the third DOWN on a list of two suggestions, which has
\* wrapped once and shows the second suggestion again.
C11_Witness ==
    /\ AfterKeypress
    /\ lastkey = <<"DOWN">>
    /\ Len(edit.suggestions) = 2
    /\ downs = 3
    /\ edit.sugposn = 1

\* C12: a CHARACTER keypress with code point c turns the buffer B with the
\* cursor at p into B[0..p) ++ c ++ B[p..), with the cursor at p + 1 and mode
\* DEFAULT.
C12_CharacterInserts ==
    [][(pc = "editing" /\ lastkey' # <<>> /\ lastkey'[1] = "CHARACTER")
          => /\ pc' = "editing"
             /\ CodePoints(edit'.current.bytes) =
                   InsertAt(CodePoints(edit.current.bytes), edit.posn, lastkey'[2])
             /\ edit'.posn = edit.posn + 1
             /\ edit'.mode = "DEFAULT"]_vars

\* C12 for the CHARACTER keypresses that complete (the insertion stays within
\* the allocation): the same effect.
C12_CharacterInsertsIfCompleted ==
    [][(pc = "editing" /\ lastkey' # <<>> /\ lastkey'[1] = "CHARACTER" /\ pc' = "editing")
          => /\ CodePoints(edit'.current.bytes) =
                   InsertAt(CodePoints(edit.current.bytes), edit.posn, lastkey'[2])
             /\ edit'.posn = edit.posn + 1
             /\ edit'.mode = "DEFAULT"]_vars

\* The larger of two numbers.
Max(a, b) == IF a > b THEN a ELSE b

\* seq without its elements number from + 1 to to.
RemoveRange(seq, from, to) == SubSeq(seq, 1, from) \o SubSeq(seq, to + 1, Len(seq))

\* C13: DELETE with a selection removes the characters [min(sposn, posn),
\* max(sposn, posn)) and leaves the cursor at min(sposn, posn); without a
\* selection it removes the character left of the cursor and moves the
\* cursor one back, or, at posn 0, changes neither buffer nor cursor;
\* afterwards mode is DEFAULT.
C13_Delete ==
    [][(pc = "editing" /\ lastkey' = <<"DELETE">>)
          => /\ pc' = "editing"
             /\ edit'.mode = "DEFAULT"
             /\ IF edit.mode = "SELECTION"
                THEN /\ CodePoints(edit'.current.bytes) =
                            RemoveRange(CodePoints(edit.current.bytes),
                                        Min(edit.sposn, edit.posn), Max(edit.sposn, edit.posn))
                     /\ edit'.posn = Min(edit.sposn, edit.posn)
                ELSE IF edit.posn > 0
                THEN /\ CodePoints(edit'.current.bytes) =
                            RemoveRange(CodePoints(edit.current.bytes), edit.posn - 1, edit.posn)
                     /\ edit'.posn = edit.posn - 1
                ELSE /\ edit'.current.bytes = edit.current.bytes
                     /\ edit'.posn = edit.posn]_vars

\* C13 witness: after two characters, one of them multi-byte, were selected
\* and copied, DELETE has left one multi-byte character with the cursor
\* behind it.
C13_Witness ==
    /\ AfterKeypress
    /\ lastkey = <<"DELETE">>
    /\ edit.current.bytes = ch_euro
    /\ edit.posn = 1
    /\ edit.clipboard.bytes = ch_a \o ch_euro

\* The keys C14 names as dropping the selection: the plain arrows and the
\* keys that insert or delete characters.
DropsSelection(key) ==
    \/ key[1] \in {"LEFT", "RIGHT", "CHARACTER", "DELETE", "TAB"}
    \/ key[1] = "CTRL" /\ key[2] \in {"D", "L", "V"}

\* What C14 says of the keypress `key` between the editor states e and f.
SelectionEffect(key, e, f) ==
    /\ key[1] \in {"SHIFT_LEFT", "SHIFT_RIGHT"} =>
          /\ f.mode = "SELECTION"
          /\ f.sposn = IF e.mode = "SELECTION" THEN e.sposn ELSE e.posn
    /\ DropsSelection(key) =>
          /\ f.mode = "DEFAULT"
          /\ f.sposn = -1

\* C14: a shift-arrow leaves mode SELECTION with sposn the cursor held before
\* the first shift-arrow of the run (later ones do not change it); a plain
\* arrow and every key that inserts or deletes characters leave mode DEFAULT
\* and no selection.
C14_Selection ==
    [][(pc = "editing" /\ lastkey' # <<>>
            /\ (lastkey'[1] \in {"SHIFT_LEFT", "SHIFT_RIGHT"} \/ DropsSelection(lastkey')))
          => (pc' = "editing" /\ SelectionEffect(lastkey', edit, edit'))]_vars

\* C14 for the keypresses that complete (no read through a NULL buffer, no
\* insertion past the allocation): the same effect.
C14_SelectionIfCompleted ==
    [][(pc = "editing" /\ lastkey' # <<>> /\ pc' = "editing")
          => SelectionEffect(lastkey', edit, edit')]_vars

C15_WitnessNoSelection ==
    /\ AfterKeypress
    /\ lastkey = <<"CTRL", "C">>
    /\ edit.mode = "DEFAULT"
    /\ edit.clipboard.bytes # <<>>
    /\ edit.clipboard.bytes # edit.current.bytes

\* The number of line breaks among the first p characters of cp.
LineOf(cp, p) == Cardinality({i \in 1..p : cp[i] = ch_newline})

\* The character position at which line k of cp starts.
LineStart(cp, k) ==
    IF k = 0 THEN 0
    ELSE CHOOSE p \in 1..Len(cp) : cp[p] = ch_newline /\ LineOf(cp, p) = k

\* The number of characters of line k of cp, its line break not counted.
LineLength(cp, k) ==
    LET from == LineStart(cp, k)
        ends == {p \in (from + 1)..Len(cp) : cp[p] = ch_newline}
    IN  IF ends = {} THEN Len(cp) - from
        ELSE (CHOOSE p \in ends : \A q \in ends : p <= q) - 1 - from

\* Where a move by delta lines from character p of cp ends when the target
\* line exists: the same column there, or the end of that line when it is
\* shorter.
LineTarget(cp, p, delta) ==
    LET line   == LineOf(cp, p)
        column == p - LineStart(cp, line)
    IN  LineStart(cp, line + delta) + Min(column, LineLength(cp, line + delta))

\* Ctrl-N is delta 1, Ctrl-P is delta -1.
LineDelta(key) == IF key = <<"CTRL", "N">> THEN 1 ELSE -1

\* C16: Ctrl-N / Ctrl-P move posn to the same column on the next / previous
\* line when that line has at least that many characters and to the end of
\* that line when it is shorter; the buffer is unchanged and mode becomes
\* DEFAULT.
C16_ChangeLine ==
    [][(pc = "editing" /\ lastkey' \in {<<"CTRL", "N">>, <<"CTRL", "P">>})
          => LET cp     == CodePoints(edit.current.bytes)
                 target == LineOf(cp, edit.posn) + LineDelta(lastkey')
             IN  /\ pc' = "editing"
                 /\ edit'.current = edit.current
                 /\ edit'.mode = "DEFAULT"
                 /\ (target >= 0 /\ target <= LineOf(cp, Len(cp)))
                       => edit'.posn = LineTarget(cp, edit.posn, LineDelta(lastkey'))]_vars

\* C16 witness: Ctrl-N from column 2 of a two-character line has moved to the
\* end of the one-character line below.
C16_Witness ==
    /\ AfterKeypress
    /\ lastkey = <<"CTRL", "N">>
    /\ edit.current.bytes = ch_f \o ch_lbrace \o ch_newline \o ch_rbrace
    /\ edit.posn = 4
    /\ edit.mode = "DEFAULT"

\* C16 witness for the same column: Ctrl-P from column 1 of the second line
\* has moved to column 1 of the first line.
C16_WitnessSameColumn ==
    /\ AfterKeypress
    /\ lastkey = <<"CTRL", "P">>
    /\ edit.current.bytes = ch_lbrace \o ch_f \o ch_newline \o ch_rbrace
    /\ edit.posn = 1

\* C17: Ctrl-G ends the session from any mode and buffer, also with more
\* keys waiting in the burst: the buffer handed back is empty, nothing is
\* added to the history, and the history-mode snapshot is removed, so that the
\* history is the history the session started with.
C17_Abort ==
    [][(pc = "editing" /\ lastkey' = <<"CTRL", "G">>)
          => /\ pc' = "idle"
             /\ edit'.current.bytes = <<>>
             /\ edit'.history = hist0
             /\ edit'.mode = "DEFAULT"
             /\ returned' = returned]_vars

\* C17 witness: Ctrl-G has ended a session while further keys of the burst
\* were waiting, and the history is the one the session started with.
C17_Witness ==
    /\ pc = "idle"
    /\ lastkey = <<"CTRL", "G">>
    /\ more
    /\ edit.current.bytes = <<>>
    /\ edit.history = hist0

\* C17 witness in a later session, with a history to keep.
C17_WitnessHistory ==
    /\ pc = "idle"
    /\ lastkey = <<"CTRL", "G">>
    /\ hist0 # <<>>
    /\ edit.history = hist0

\* C18: every linedit() call starts its editing session with an empty
\* buffer, mode DEFAULT, posn 0, sposn -1 and no suggestions, whatever the
\* previous session ended in, and with the history, the clipboard, the
\* grapheme width dictionary and the callbacks as they were when the previous
\* call returned.
C18_SessionStart ==
    [][(pc = "idle" /\ pc' = "editing")
          => /\ edit'.current.bytes = <<>>
             /\ edit'.mode = "DEFAULT"
             /\ edit'.posn = 0
             /\ edit'.sposn = -1
             /\ edit'.suggestions = <<>>
             /\ edit'.history = edit.history
             /\ edit'.clipboard = edit.clipboard
             /\ edit'.graphemedict = edit.graphemedict
             /\ edit'.completer = edit.completer
             /\ edit'.multiline = edit.multiline
             /\ edit'.graphemefn = edit.graphemefn]_vars

\* C18 witness: a second session has started after one that left a line in
\* the history, text on the clipboard and a measured grapheme behind.
C18_Witness ==
    /\ pc = "editing"
    /\ nsess = 2
    /\ lastkey = <<>>
    /\ edit.current.bytes = <<>>
    /\ edit.posn = 0
    /\ edit.history # <<>>
    /\ edit.clipboard.bytes = ch_euro
    /\ edit.graphemedict.count = 1
    /\ edit.completer = "prompt"

\* C19: linedit returns NULL if and only if the buffer it ends with holds no
\* character: nothing typed, everything typed deleted again, or the session
\* aborted.
C19_NullIffEmpty ==
    (pc = "idle" /\ nsess >= 1) =>
        (linedit_cstring(edit.current).null <=> Len(edit.current.bytes) = 0)

\* What does hold of the value linedit returns: it is NULL exactly when the
\* buffer holds no allocation, and a NULL result means an empty buffer.
C19_NullIffUnallocated ==
    (pc = "idle" /\ nsess >= 1) =>
        /\ linedit_cstring(edit.current).null <=> ~edit.current.alloc
        /\ linedit_cstring(edit.current).null => Len(edit.current.bytes) = 0

\* C20: when stdin reaches its end during a linedit() call, the call
\* eventually returns, in the key loop of a supported terminal as in the
\* readers for no terminal and for an unsupported one.
C20_EofReturns ==
    (pc \in {"reading_eof", "noterminal_eof", "unsupported_eof"}) ~> (pc = "ended")

\* What does hold at the end of stdin: the readers for no terminal and for
\* an unsupported one return.
C20_EofReturnsWithoutRawMode ==
    (pc \in {"noterminal_eof", "unsupported_eof"}) ~> (pc = "ended")

\* At the end of stdin the key loop of a supported terminal never leaves
\* linedit_processkeypress, and the buffer stays what it was.
C20_RawModeSpins ==
    [][(pc \in {"reading_eof", "polling_eof"})
          => (/\ pc' \in {"reading_eof", "polling_eof"}
              /\ edit'.current = edit.current)]_vars

\* C21: the terminal is in raw mode only during a session on a supported
\* terminal; linedit_enablerawmode and linedit_disablerawmode alternate, a
\* session that ends, accepted with RETURN or aborted with Ctrl-G, goes
\* through linedit_disablerawmode, and whenever linedit has returned the
\* attributes are the original ones.
C21_RawModeOnlyInSession ==
    /\ [](InRawMode(term.attrs) <=> pc \in {"editing", "crashed"})
    /\ [](pc = "idle" => term.attrs = OriginalAttributes)
    /\ [][/\ (pc = "idle" /\ pc' = "editing")
              => (~InRawMode(term.attrs) /\ InRawMode(term'.attrs)
                    /\ term'.terminit = OriginalAttributes)
          /\ (pc = "editing" /\ pc' = "idle")
              => (InRawMode(term.attrs) /\ term'.attrs = OriginalAttributes)
          /\ (term'.attrs # term.attrs)
              => (pc = "idle" /\ pc' = "editing") \/ (pc = "editing" /\ pc' = "idle")]_vars

\* C21 witness: a session was accepted with RETURN, a later one has just
\* been aborted with Ctrl-G, and the terminal has its original attributes.
C21_Witness ==
    /\ pc = "idle"
    /\ nsess >= 2
    /\ Len(returned) >= 1
    /\ lastkey = <<"CTRL", "G">>
    /\ term.entry = "ok"
    /\ term.terminit = OriginalAttributes
    /\ term.attrs = OriginalAttributes

\* C22: a session whose entry into raw mode failed does not run the key loop
\* but the reader for an unsupported terminal.
C22_FailedEntryFallsBack ==
    [][(pc = "idle" /\ pc' # "idle" /\ term'.entry = "failed")
          => pc' = "unsupported"]_vars

\* What happens instead: the key loop runs on the terminal as it is, and
\* when tcgetattr failed in the first session, the end of the session sets
\* attributes that were never read.
C22_KeyLoopRunsAfterFailedEntry ==
    [][(pc = "idle" /\ pc' # "idle" /\ term'.entry = "failed")
          => pc' = "editing"]_vars

\* The suggestions of editor e are the ones the completer pushes for the
\* buffer of e, and its cursor is at the end of the buffer.
SuggestionsCurrent(e) ==
    /\ e.posn = Len(CodePoints(e.current.bytes))
    /\ e.suggestions = Completer(e.completer, e.current.bytes)

\* C23: a suggestion that linedit_redraw displays after a burst, and one that
\* TAB commits, belongs to the buffer as it is at that moment, with the
\* cursor at its end: never one computed for an earlier buffer or cursor
\* position.
C23_SuggestionsNeverStale ==
    /\ []((pc = "editing" /\ ~more /\ linedit_aresuggestionsavailable(edit))
            => SuggestionsCurrent(edit))
    /\ [][(pc = "editing" /\ lastkey' = <<"TAB">> /\ linedit_aresuggestionsavailable(edit))
            => SuggestionsCurrent(edit)]_vars

\* What does hold: after a burst of one key the suggestions on display are
\* current, and so are the ones TAB commits as the only key of a burst that
\* follows bursts of one key.
C23_CurrentWhenKeysArriveSingly ==
    /\ []((pc = "editing" /\ ~more /\ Bursts(scenario) = {FALSE}
                /\ linedit_aresuggestionsavailable(edit))
            => SuggestionsCurrent(edit))
    /\ [][(pc = "editing" /\ lastkey' = <<"TAB">> /\ Bursts(scenario) = {FALSE}
                /\ linedit_aresuggestionsavailable(edit))
            => SuggestionsCurrent(edit)]_vars

\* The stale list on display: DOWN and then LEFT in one burst have left a
\* suggestion on display with the cursor inside the buffer.
C23_StaleOnDisplay ==
    /\ pc = "editing" /\ ~more
    /\ lastkey = <<"LEFT">>
    /\ downs > 0
    /\ linedit_aresuggestionsavailable(edit)
    /\ edit.posn < Len(CodePoints(edit.current.bytes))

\* C24: after the height change and the redraw that follow a burst, the
\* prompt was written on the first row of the block and the cursor is on the
\* row of the line of posn.
C24_CursorRowTracked ==
    (pc = "editing" /\ ~more)
        => /\ screen.promptrow = 0
           /\ screen.row = linedit_stringcoordinates(edit.current, edit.posn)[2]

\* What does hold: a burst that begins with the cursor on the row of its
\* line ends so, with the prompt on the first row, unless it adds lines
\* without moving the cursor down by as many.
C24_TrackedUnlessLinesAddedElsewhere ==
    [][(/\ pc = "editing" /\ pc' = "editing" /\ ~more'
        /\ screen.row = screen.vpos
        /\ (screen'.nlines > screen.nlines
               => screen'.vpos - screen.vpos = screen'.nlines - screen.nlines))
          => /\ screen'.promptrow = 0
             /\ screen'.row = screen'.vpos
             /\ screen'.vpos = linedit_stringcoordinates(edit'.current, edit'.posn)[2]]_vars

\* in begins with the bytes p.
HasPrefix(in, p) == Len(in) >= Len(p) /\ SubSeq(in, 1, Len(p)) = p

\* The number of bytes of the UTF-8 character that begins with byte b, for
\* the bytes that begin one.
Utf8Length(b) == IF b < 128 THEN 1 ELSE IF b < 224 THEN 2 ELSE IF b < 240 THEN 3 ELSE 4

\* The key that the bytes in begin with.
KeyOfBytes(in) ==
    CASE in[1] = 9 -> <<"TAB">>
      [] in[1] = 13 -> <<"RETURN">>
      [] in[1] = 127 -> <<"DELETE">>
      [] in[1] \in (1..26) \ {9, 13} -> <<"CTRL", CtrlLetter[in[1]]>>
      [] HasPrefix(in, <<27, 91, 65>>) -> <<"UP">>
      [] HasPrefix(in, <<27, 91, 66>>) -> <<"DOWN">>
      [] HasPrefix(in, <<27, 91, 67>>) -> <<"RIGHT">>
      [] HasPrefix(in, <<27, 91, 68>>) -> <<"LEFT">>
      [] HasPrefix(in, <<27, 91, 49, 59, 50, 67>>) -> <<"SHIFT_RIGHT">>
      [] HasPrefix(in, <<27, 91, 49, 59, 50, 68>>) -> <<"SHIFT_LEFT">>
      [] (in[1] >= 32 /\ in[1] < 127) \/ (in[1] >= 192 /\ in[1] < 248) ->
            <<"CHARACTER", SubSeq(in, 1, Utf8Length(in[1]))>>
      [] OTHER -> <<"UNKNOWN">>

\* A step in which linedit_readkey has read a key.
KeyRead == pc = "editing" /\ stdin.ready # <<>> /\ Len(stdin'.ready) < Len(stdin.ready)

\* A step in which linedit_readkey has read a key that is UNKNOWN, other
\* than as the last key of a burst of several keys (whose end regenerates
\* the suggestions and redraws for the keys before it).
UnknownKeyRead == KeyRead /\ lastkey' = <<"UNKNOWN">> /\ (more' \/ ~more)

\* C25: linedit_readkey maps the bytes that wait on stdin to one key: 9 to
\* TAB, 13 to RETURN, 127 to DELETE, another byte in 1..26 to CTRL with its
\* letter, ESC [ A/B/C/D to UP/DOWN/RIGHT/LEFT, ESC [ 1 ; 2 C/D to
\* SHIFT_RIGHT/SHIFT_LEFT, the first byte of a UTF-8 character to CHARACTER
\* with the bytes of the character, and every other control byte or escape
\* sequence to UNKNOWN; a key that is UNKNOWN changes nothing in the editor.
C25_ReadkeyMapping ==
    [][/\ KeyRead => lastkey' = KeyOfBytes(stdin.ready)
       /\ UnknownKeyRead => edit' = edit]_vars

\* What does hold: the key is the one the bytes stand for, and a key that
\* is UNKNOWN changes nothing in the editor but the suggestion selected.
C25_KeyDecoded ==
    [][/\ KeyRead => lastkey' = KeyOfBytes(stdin.ready)
       /\ UnknownKeyRead => edit' = [edit EXCEPT !.sugposn = edit'.sugposn]]_vars

\* The key moves the cursor right, and the cursor is at the end of the buffer.
RightAtEnd(key) ==
    /\ key \in {<<"RIGHT">>, <<"SHIFT_RIGHT">>, <<"CTRL", "F">>}
    /\ edit.posn = CharCount

\* The key moves the cursor left, and the cursor is at the start of the buffer.
LeftAtStart(key) ==
    /\ key \in {<<"LEFT">>, <<"SHIFT_LEFT">>, <<"CTRL", "B">>}
    /\ edit.posn = 0

\* C26: a key that moves right with the cursor at the end of the buffer,
\* and one that moves left with the cursor at 0, leaves posn and the buffer
\* as they are and reads through no null pointer, also when the buffer is
\* still unallocated.
C26_EdgeMovesDoNothing ==
    [][(pc = "editing" /\ (RightAtEnd(lastkey') \/ LeftAtStart(lastkey')))
          => /\ ~processkey(edit, lastkey', TRUE).fault
             /\ edit'.posn = edit.posn
             /\ edit'.current = edit.current]_vars

\* What does hold: such a key reads through no null pointer when the buffer
\* is allocated or the key moves left, and where the session goes on posn
\* and the buffer are as they were.
C26_EdgeMovesOnAllocatedBuffer ==
    [][(pc = "editing" /\ (RightAtEnd(lastkey') \/ LeftAtStart(lastkey')))
          => /\ (edit.current.alloc \/ LeftAtStart(lastkey'))
                    => ~processkey(edit, lastkey', TRUE).fault
             /\ pc' = "editing"
                    => (edit'.posn = edit.posn /\ edit'.current = edit.current)]_vars

\* What happens instead on the unallocated buffer: the key that moves right
\* reads through the null pointer.
C26_RightOnUnallocatedFaults ==
    [][(pc = "editing" /\ RightAtEnd(lastkey') /\ ~edit.current.alloc)
          => processkey(edit, lastkey', TRUE).fault]_vars

\* C27: a RETURN that continues the line puts the newline in at the cursor:
\* afterwards the character before posn is the new line break and the text
\* that was right of the cursor follows it.
C27_NewlineAtCursor ==
    [][(pc = "editing" /\ lastkey' = <<"RETURN">> /\ linedit_shouldmultiline(edit))
          => /\ CodePoints(edit'.current.bytes) =
                    InsertAt(CodePoints(edit.current.bytes), edit.posn, ch_newline)
             /\ edit'.posn = edit.posn + 1]_vars

\* What happens instead: the newline is added at the end of the buffer,
\* and posn goes one character on.
C27_NewlineAppended ==
    [][(pc = "editing" /\ lastkey' = <<"RETURN">> /\ linedit_shouldmultiline(edit))
          => /\ edit'.current.bytes = edit.current.bytes \o ch_newline
             /\ edit'.posn = edit.posn + 1]_vars

\* The characters of the string a call was given, and of the one it left.
CallChars == CodePoints(call.string.bytes)

ResultChars == CodePoints(call.result.bytes)

\* C28: linedit_stringinsert with a position greater than the number of
\* characters of the string appends the bytes; it is never a call without
\* effect.
C28_InsertPastEndAppends ==
    (call.fn = "insert" /\ call.posn > Len(CallChars))
        => call.result.bytes = call.string.bytes \o call.text

\* What happens instead: with a position greater than the number of
\* characters the string is left as it is; with the position equal to it the
\* bytes are appended.
C28_InsertPastEndKeeps ==
    call.fn = "insert"
        => /\ call.posn > Len(CallChars) => call.result = call.string
           /\ call.posn = Len(CallChars) => call.result.bytes = call.string.bytes \o call.text

\* C29: linedit_stringdelete with posn within the string removes the n
\* characters from posn on, or, where fewer than n are left, the characters
\* from posn to the end.
C29_DeleteClamps ==
    (call.fn = "delete" /\ call.posn <= Len(CallChars))
        => ResultChars =
              IF call.posn + call.n > Len(CallChars)
              THEN SubSeq(CallChars, 1, call.posn)
              ELSE RemoveRange(CallChars, call.posn, call.posn + call.n)

\* What does hold: where n characters are left from posn on, exactly these
\* are removed; where fewer are left the string is left as it is.
C29_DeleteWithinRange ==
    (call.fn = "delete" /\ call.posn <= Len(CallChars))
        => IF call.posn + call.n > Len(CallChars)
           THEN call.result = call.string
           ELSE ResultChars = RemoveRange(CallChars, call.posn, call.posn + call.n)

\* C30: linedit_stringinsert reads and writes only below the capacity of
\* the buffer, and leaves the string shorter than its capacity, so that the
\* terminator after its bytes lies within (a string left unallocated has no
\* buffer).
C30_InsertWithinCapacity ==
    (call.fn = "insert" /\ call.result.alloc)
        => /\ ~call.fault
           /\ Len(call.result.bytes) < call.result.cap

\* What does hold: the string is left shorter than its capacity, and the
\* call writes beyond the capacity only with characters of several bytes
\* before the position.
C30_InsertWithinCapacityAfterAscii ==
    call.fn = "insert"
        => /\ call.result.alloc => Len(call.result.bytes) < call.result.cap
           /\ call.fault
                => \E i \in 1..call.posn : i <= Len(CallChars) /\ Len(CallChars[i]) > 1

\* A line that is not empty is yet to come, or being read.
NonemptyLineAhead ==
    \/ pc = "cli_noterminal" /\ edit.current.alloc
    \/ pc \in {"idle", "cli_noterminal"}
         /\ \E i \in 1..Len(stdin.later) : stdin.later[i] # 10

\* C31: with a standard input that is no terminal cli() runs at most one
\* round of reading, compiling and running, and terminates whatever the
\* stream is, an empty one included.
C31_CliTerminates ==
    /\ [](Len(returned) <= 1)
    /\ <>(pc = "cli_done")

\* What does hold: at most one round is run, and cli() terminates when the
\* stream has a line that is not empty.
C31_TerminatesWithNonemptyLine ==
    /\ [](Len(returned) <= 1)
    /\ NonemptyLineAhead ~> (pc = "cli_done")

\* Without such a line cli() goes on calling linedit for ever.
C31_SpinsAtEof ==
    [][(~NonemptyLineAhead /\ pc \in {"idle", "cli_noterminal"})
          => (pc' \in {"idle", "cli_noterminal"} /\ ~NonemptyLineAhead')]_vars

\* The bytes from index i on are whole characters: each leading byte is
\* followed by its continuation bytes, and no byte is the terminator.
RECURSIVE WellFormedFrom(_, _)
WellFormedFrom(bytes, i) ==
    IF i > Len(bytes) THEN TRUE
    ELSE LET n == linedit_utf8numberofbytes(bytes[i])
         IN  /\ bytes[i] # 0
             /\ n > 0
             /\ i + n - 1 <= Len(bytes)
             /\ \A k \in (i + 1)..(i + n - 1) : bytes[k] \div 64 = 2
             /\ WellFormedFrom(bytes, i + n)

\* The number of characters a keypress adds to the buffer of editor e and
\* the number it removes, for the keys that type or delete.
TypedBy(key) == IF key[1] = "CHARACTER" THEN 1 ELSE 0

DeletedBy(key, e) ==
    IF key # <<"DELETE">> THEN 0
    ELSE IF e.mode = "SELECTION" THEN Max(e.sposn, e.posn) - Min(e.sposn, e.posn)
    ELSE IF e.mode = "DEFAULT" /\ e.posn > 0 THEN 1
    ELSE 0

\* C32: after any sequence of keypresses the buffer is well-formed UTF-8 and
\* holds no terminator before its end, counting its characters succeeds, and
\* every keypress that types a character or deletes changes the count by the
\* characters typed less the characters deleted.
C32_BufferStaysUtf8 ==
    /\ [](/\ WellFormedFrom(edit.current.bytes, 1)
          /\ linedit_utf8count(edit.current.bytes, 0, Len(edit.current.bytes)) = CharCount
          /\ linedit_stringlength(edit.current) = CharCount)
    /\ [][(pc = "editing" /\ pc' = "editing" /\ lastkey' # <<>>
              /\ lastkey'[1] \in {"CHARACTER", "DELETE"} /\ edit.mode # "HISTORY")
            => Len(CodePoints(edit'.current.bytes))
                 = CharCount + TypedBy(lastkey') - DeletedBy(lastkey', edit)]_vars

\* C32 witness: of three characters typed, one of several bytes among them,
\* DELETE has removed the one in the middle.
C32_Witness ==
    /\ AfterKeypress
    /\ lastkey = <<"DELETE">>
    /\ edit.current.bytes = ch_euro \o ch_a
    /\ edit.posn = 1

\* C33: linedit_stringinsert of a text at a position within the string,
\* followed by linedit_stringdelete of as many characters at that position,
\* restores the bytes and the length of the string.
C33_InsertThenDeleteRestores ==
    (call.fn = "insertdelete" /\ call.posn <= Len(CallChars))
        => /\ ~call.fault
           /\ call.result.bytes = call.string.bytes

\* What does hold: the bytes are restored whenever the insertion stays
\* within the allocation, which it does when only characters of one byte
\* precede the position.
C33_RestoresIfInsertCompleted ==
    (call.fn = "insertdelete" /\ call.posn <= Len(CallChars))
        => /\ ~call.fault => call.result.bytes = call.string.bytes
           /\ call.fault
                => \E i \in 1..call.posn : i <= Len(CallChars) /\ Len(CallChars[i]) > 1

\* C34: for every buffer, of several lines too, and every position within
\* it, linedit_stringfindposition of the column and line that
\* linedit_stringcoordinates gives for the position is the position.
C34_CoordinatesRoundTrip ==
    call.fn = "coordinates" => call.n = call.posn

\* C34 witness: the position behind the first character of the second line,
\* with a character of several bytes on the first.
C34_Witness ==
    /\ call.fn = "coordinates"
    /\ call.string.bytes = ch_euro \o ch_newline \o ch_a \o ch_a
    /\ call.posn = 3
    /\ call.text = <<1, 1>>
    /\ call.n = 3

\* TRUE when the byte string g is the beginning of the byte string h and
\* shorter.
ProperPrefix(g, h) == Len(g) < Len(h) /\ SubSeq(h, 1, Len(g)) = g

\* C35: once linedit_graphemeinsert has stored a width for a grapheme, every
\* later linedit_graphemelookup of the grapheme succeeds with that width,
\* whatever is inserted in between and however the table is resized.
C35_StoredWidthStays ==
    call.fn = "graphemelookup" =>
        \A p \in call.stored :
            p[1] = call.grapheme => (call.found /\ call.width = p[2])

\* What does hold: the stored width is found as long as no grapheme inserted
\* is the beginning of another.
C35_StaysWithoutPrefixes ==
    (/\ call.fn = "graphemelookup"
     /\ \A g \in call.inserted, h \in call.inserted : ~ProperPrefix(g, h)) =>
        \A p \in call.stored :
            p[1] = call.grapheme => (call.found /\ call.width = p[2])

\* C36: linedit_graphemelookup finds a grapheme only when exactly its bytes
\* were inserted earlier; a grapheme that is the beginning of a stored one is
\* not matched to that entry.
C36_LookupMatchesExactly ==
    (call.fn = "graphemelookup" /\ call.found) => call.grapheme \in call.inserted

\* What does hold: a grapheme that is found is one inserted or the beginning
\* of one inserted, and the width is the width stored with one of these.
C36_LookupMatchesBeginning ==
    (call.fn = "graphemelookup" /\ call.found) =>
        \E p \in call.stored :
            /\ p[1] = call.grapheme \/ ProperPrefix(call.grapheme, p[1])
            /\ call.width = p[2]

\* The number of bytes of str that are no control characters.
RECURSIVE PrintableBytes(_)
PrintableBytes(str) ==
    IF str = <<>> THEN 0
    ELSE (IF iscntrl(Head(str)) THEN 0 ELSE 1) + PrintableBytes(Tail(str))

\* C37: linedit_graphemedisplaywidth reports the width 0 as known for a
\* control character of one byte and the width 1 as known for a printable
\* one, and for a grapheme of several bytes the width in the dictionary, or
\* that none is known; so the display width of a string counts no column for
\* a control byte.
C37_ControlWidthZero ==
    /\ (call.fn = "graphemedisplaywidth" /\ Len(call.grapheme) = 1) =>
          (call.found /\ call.width = IF iscntrl(call.grapheme[1]) THEN 0 ELSE 1)
    /\ (call.fn = "graphemedisplaywidth" /\ Len(call.grapheme) > 1) =>
          (call.found <=> \E p \in call.stored : p[1] = call.grapheme)
    /\ call.fn = "stringdisplaywidth" => call.width = PrintableBytes(call.grapheme)

\* What does hold: for a control character of one byte no width is reported
\* as known and the width of the caller, 1, is left as it is; a printable
\* one has width 1; and the display width of a string of characters of one
\* byte is their number, control characters included.
C37_ControlWidthUnknown ==
    /\ (call.fn = "graphemedisplaywidth" /\ Len(call.grapheme) = 1) =>
          (call.width = 1 /\ (call.found <=> ~iscntrl(call.grapheme[1])))
    /\ (call.fn = "graphemedisplaywidth" /\ Len(call.grapheme) > 1 /\ call.found) =>
          \E p \in call.stored :
              /\ p[1] = call.grapheme \/ ProperPrefix(call.grapheme, p[1])
              /\ call.width = p[2]
    /\ call.fn = "stringdisplaywidth" => call.width = Len(call.grapheme)

\* The output as the C string it is used as: the bytes before its first '\0'.
RECURSIVE Visible(_)
Visible(out) ==
    IF out = <<>> \/ Head(out) = 0 THEN <<>> ELSE <<Head(out)>> \o Visible(Tail(out))

\* The index of the letter m that ends the escape sequence beginning at i.
RECURSIVE EscapeEnd(_, _)
EscapeEnd(bytes, i) ==
    IF i >= Len(bytes) \/ bytes[i] = 109 THEN i ELSE EscapeEnd(bytes, i + 1)

\* The text of the output from index i without its escape sequences: all of
\* it, or for which = "plain" what is written while no colour is set.
RECURSIVE TextOf(_, _, _, _)
TextOf(bytes, i, coloured, which) ==
    IF i > Len(bytes) THEN <<>>
    ELSE IF bytes[i] = 27
    THEN LET k    == EscapeEnd(bytes, i)
             code == SubSeq(bytes, i, k)
         IN  TextOf(bytes, k + 1,
                    IF code = code_default THEN FALSE
                    ELSE IF code \in {code_reverse, code_bold} THEN coloured
                    ELSE TRUE,
                    which)
    ELSE (IF which = "all" \/ ~coloured THEN <<bytes[i]>> ELSE <<>>)
         \o TextOf(bytes, i + 1, coloured, which)

\* The bytes of buf from index i on that no accepted token covers.
RECURSIVE Uncovered(_, _, _)
Uncovered(buf, covered, i) ==
    IF i >= Len(buf) THEN <<>>
    ELSE (IF i \in covered THEN <<>> ELSE <<buf[i + 1]>>) \o Uncovered(buf, covered, i + 1)

\* A selection is shown, or the buffer has a character of several bytes.
ShowsSelection == call.mode = "SELECTION" /\ ~(call.sposn < 0)

HasMultibyte == \E i \in 1..Len(call.string.bytes) : call.string.bytes[i] >= 128

\* C38: whatever the tokenizer answers, linedit_syntaxcolorstring calls it
\* at most length + 1 times, and when it has returned the displayed string
\* shows, in no colour, exactly the bytes of the buffer that no accepted
\* token covers.
C38_UncoveredUnstyled ==
    call.fn = "syntaxcolorstring" =>
        /\ call.calls <= Len(call.string.bytes) + 1
        /\ call.done =>
              TextOf(Visible(call.out), 1, FALSE, "plain")
              = Uncovered(call.string.bytes, call.covered, 0)

\* What does hold: the bound on the calls of the tokenizer always (the
\* warning of a stuck tokenizer is never reached with tokens inside the
\* buffer), and the uncovered bytes in no colour when no selection is shown
\* or the buffer has characters of one byte only.
C38_UnstyledWithoutSelection ==
    call.fn = "syntaxcolorstring" =>
        /\ call.calls <= Len(call.string.bytes) + 1
        /\ call.calls <= Len(call.string.bytes) \/ Len(call.string.bytes) = 0
        /\ ~call.lexwarning
        /\ (call.done /\ (~ShowsSelection \/ ~HasMultibyte)) =>
              /\ TextOf(Visible(call.out), 1, FALSE, "plain")
                 = Uncovered(call.string.bytes, call.covered, 0)
              /\ ~call.overread

\* linedit_syntaxcolorstring and linedit_plainstring return.
C38_Returns == <>call.done

\* C39: the string built by linedit_plainstring or linedit_syntaxcolorstring
\* is, without its escape sequences, byte for byte the buffer, and no byte
\* outside the chunk being added was read for it.
C39_OutputIsBuffer ==
    call.done =>
        /\ TextOf(Visible(call.out), 1, FALSE, "all") = call.string.bytes
        /\ ~call.overread

\* What does hold: this, when no selection is shown or the buffer has
\* characters of one byte only.
C39_OutputIsBufferWithoutSelection ==
    (call.done /\ (~ShowsSelection \/ ~HasMultibyte)) =>
        /\ TextOf(Visible(call.out), 1, FALSE, "all") = call.string.bytes
        /\ ~call.overread

\* linedit_plainstring alone: the text shown is the buffer's also with a
\* selection and characters of several bytes, but bytes behind the buffer's
\* end were read for it.
C39_PlainShowsBuffer ==
    call.fn = "plainstring" =>
        /\ TextOf(Visible(call.out), 1, FALSE, "all") = call.string.bytes
        /\ call.overread =>
              /\ ShowsSelection /\ HasMultibyte
              /\ selectionbounds(ColorEditor)[1] <= Len(call.string.bytes)

\* Ctrl-N or Ctrl-P is the next key, and the buffer has no line for it to
\* move to: the cursor is on the last line for Ctrl-N, on the first for
\* Ctrl-P.
ChangeLineAtEdge(key) ==
    LET cp     == CodePoints(edit.current.bytes)
        target == LineOf(cp, edit.posn) + LineDelta(key)
    IN  /\ pc = "editing"
        /\ key \in {<<"CTRL", "N">>, <<"CTRL", "P">>}
        /\ target < 0 \/ target > LineOf(cp, Len(cp))

\* C40: Ctrl-P on the first line and Ctrl-N on the last line leave posn as
\* it is, and leave the buffer as it is.
C40_EdgeLinesKeepPosition ==
    [][ChangeLineAtEdge(lastkey')
          => /\ edit'.posn = edit.posn
             /\ edit'.current = edit.current]_vars

\* What does hold: the buffer stays as it is; Ctrl-P on the first line
\* leaves posn as it is, and Ctrl-N on the last line moves posn to the end
\* of the buffer.
C40_CtrlNGoesToEnd ==
    [][ChangeLineAtEdge(lastkey')
          => /\ edit'.current = edit.current
             /\ edit'.posn = IF lastkey' = <<"CTRL", "P">> THEN edit.posn
                             ELSE Len(CodePoints(edit.current.bytes))]_vars

====
